---- MODULE Spec2Model ----
(***************************************************************************)
(* Wall-E face controller (pico_main.py): the lazy-PWM servo object, the   *)
(* synchronized group ramp, the gesture library and the HTTP command loop. *)
(*                                                                         *)
(* Spec      the program as it runs: main -> server(ip), one command at a  *)
(*           time, each handler executed call by call.                     *)
(* SpecApi   the module's functions and the ServoLazy methods called       *)
(*           directly, one call after another, as from a REPL or a test.   *)
(* SpecDuty  us_to_duty applied to every pulse of the servo range.         *)
(*                                                                         *)
(* Environment: PWM(Pin(n)), freq() and duty_u16() do not throw (the code  *)
(* does not guard them); deinit() may throw (the code guards it).  The     *)
(* sleeps change no state and appear only as events of the step.           *)
(***************************************************************************)
EXTENDS Integers, Sequences, FiniteSets, TLC

VARIABLES
    eyelids,    \* name -> ServoLazy object (pico_main.py:146)
    UD,         \* ServoLazy object (pico_main.py:157)
    LR,         \* ServoLazy object (pico_main.py:158)
    cmd,        \* the path being handled, "" while blocked in accept()
    todo,       \* the calls the running handler has still to make
    op,         \* the call in progress
    pc,         \* the position inside the call in progress
    idx,        \* loop index of enable_all_lids / release_all
    cur,        \* local cur of move_group (name -> pulse) or of move
    tgt,        \* local tgt of move_group (name -> pulse)
    exc,        \* the exception propagating, "" when none
    ev,         \* hardware and timer events issued by the last step
    before,     \* history: every object as it was when the call was entered
    iters,      \* history: stepping iterations of the call so far
    nwr,        \* history: write() calls per actuator in the call so far
    deinits,    \* history: the deinit() calls of the call so far, <<name, threw>>
    arg,        \* SpecDuty: the argument of us_to_duty
    ret,        \* SpecDuty: its result <<d>>, <<>> before the call
    waiting,    \* connections in the listen queue, not yet accepted
    ppc,        \* SpecPost: position in pico_post_reliable
    endpoint,   \* SpecPost: its argument endpoint
    tries,      \* SpecPost: its argument tries
    attempt,    \* SpecPost: iterations of its for loop begun so far
    last_t,     \* SpecPost: t, what the last pico_request returned
    result,     \* SpecPost: its return value <<b>>, <<>> before it returns
    log,        \* SpecPost history: what each pico_request returned, in order
    naps,       \* SpecPost history: number of time.sleep(delay_s) taken
    BLINK_STOP,   \* assistant: threading.Event, TRUE when set
    BLINK_THREAD, \* assistant: the thread object held, 0 for None
    SPEAKING,     \* assistant: threading.Event, TRUE when set
    LISTENING,    \* assistant: threading.Event, TRUE when set
    threads,      \* assistant: position of each blink thread in blink_loop
    mpc,          \* assistant: position of the main thread
    mret,         \* assistant: where the running stop_blinking returns to
    text,         \* speak_text_blocking: its argument, then its local text
    ok,           \* speak_text_blocking: its local ok
    raising,      \* main thread: the exception propagating, "" when none
    sres,         \* history: how the last speak_text_blocking ended
    pico_enabled, \* the module global PICO_ENABLED, which the tests reassign
    sent,         \* history: face commands cleanup_face has sent, in order
    stop_raised,  \* history: stop_blinking raised inside cleanup_face
    cres,         \* history: how the last cleanup_face ended
    rpc,          \* run_once: position in its loop
    silent_runs,  \* run_once: its local silent_runs
    rough,        \* run_once: its local rough, the text of the last recording
    pico_ready,   \* run_once: its local pico_ready
    recent,       \* history: the recordings since the last re-selection, at most 3
    stages,       \* history: what the last recording was passed on to
    applied,      \* history: the pulse last applied to each PWM output, <<>> if none
    queued,       \* SpecLink: the attempt whose connection waits in the listen queue, 0 if none
    serving,      \* SpecLink: the attempt whose connection the loop has accepted
    executed      \* SpecLink history: times the loop has started the handler of endpoint

servoVars == <<eyelids, UD, LR>>
ctlVars   == <<cmd, todo, op, pc, idx, cur, tgt, exc>>
histVars  == <<before, iters, nwr, deinits>>
dutyVars  == <<arg, ret>>
postVars  == <<ppc, endpoint, tries, attempt, last_t, result, log, naps>>
speakVars == <<text, ok, raising, sres>>
linkVars  == <<queued, serving, executed>>
runVars   == <<rpc, silent_runs, rough, pico_ready, recent, stages>>
cleanVars == <<pico_enabled, sent, stop_raised, cres>>
asstVars  == <<BLINK_STOP, BLINK_THREAD, SPEAKING, LISTENING, threads, mpc, mret, speakVars,
               cleanVars>>
vars      == <<eyelids, UD, LR, cmd, todo, op, pc, idx, cur, tgt, exc, ev,
               before, iters, nwr, deinits, arg, ret, waiting,
               ppc, endpoint, tries, attempt, last_t, result, log, naps,
               BLINK_STOP, BLINK_THREAD, SPEAKING, LISTENING, threads, mpc, mret,
               text, ok, raising, sres, pico_enabled, sent, stop_raised, cres,
               rpc, silent_runs, rough, pico_ready, recent, stages, applied,
               queued, serving, executed>>

(***************************************************************************)
(* Bounds of the direct-call harness, and program constants.               *)
(***************************************************************************)
OddOffset == 7          \* an off-grid pulse / step the harness may pass
MaxBlinkThreads == 2    \* blink threads started in one run of the assistant model

PICO_ENABLED == TRUE

SERVO_FREQ == 50
LISTEN_BACKLOG == 1
PERIOD_US  == 20000
GROUP_STEP == 20
GROUP_DELAY_MS == 6
MOVE_STEP  == 20
MOVE_DELAY_MS == 6
ENABLE_STAGGER_MS == 50
BLINK_HOLD_MS == 90
WINK_HOLD_MS == 110
LOOK_HOLD_MS == 120
UD_MID == 1410
LR_MID == 1370
US_MIN == 500
US_MAX == 2500

(***************************************************************************)
(* Servo core                                                              *)
(***************************************************************************)
\* Variant: rounds to the nearest duty instead of flooring.
us_to_duty_round(us) == (us * 65535 + PERIOD_US \div 2) \div PERIOD_US

us_to_duty(us) == (us * 65535) \div PERIOD_US

None == <<>>

PWM(f, d) == <<[freq |-> f, duty |-> d]>>

ServoLazy(pin, start_us) == [pin |-> pin, current_us |-> start_us, pwm |-> None]

\* An event of a step: <<kind, pin, value>>.
Ev(kind, pin, v) == <<kind, pin, v>>

\* A method's outcome: the object after it, the events it issued, and
\* whether it raised.
Out(self, e, r) == [self |-> self, ev |-> e, raised |-> r]

\* Variant: enable without the 'if self.pwm is None' test.
enable_always(self) ==
    Out([self EXCEPT !.pwm = PWM(SERVO_FREQ, us_to_duty(self.current_us))],
        <<Ev("PWM", self.pin, 0), Ev("freq", self.pin, SERVO_FREQ),
          Ev("duty_u16", self.pin, us_to_duty(self.current_us))>>,
        FALSE)

enable(self) ==
    IF self.pwm = None
    THEN Out([self EXCEPT !.pwm = PWM(SERVO_FREQ, us_to_duty(self.current_us))],
             <<Ev("PWM", self.pin, 0), Ev("freq", self.pin, SERVO_FREQ),
               Ev("duty_u16", self.pin, us_to_duty(self.current_us))>>,
             FALSE)
    ELSE Out(self, <<>>, FALSE)

\* Variant: write that drives the PWM output whether or not it was enabled.
write_enabling(self, us) ==
    Out([self EXCEPT !.current_us = us, !.pwm = PWM(SERVO_FREQ, us_to_duty(us))],
        <<Ev("duty_u16", self.pin, us_to_duty(us))>>, FALSE)

write(self, us) ==
    LET s == [self EXCEPT !.current_us = us]
    IN  IF s.pwm # None
        THEN Out([s EXCEPT !.pwm = PWM(s.pwm[1].freq, us_to_duty(s.current_us))],
                 <<Ev("duty_u16", s.pin, us_to_duty(s.current_us))>>, FALSE)
        ELSE Out(s, <<>>, FALSE)

\* Variant: release with the try/except around deinit() left out.
release_unguarded(self, throws) ==
    IF self.pwm # None
    THEN IF throws
         THEN Out(self, <<Ev("deinit", self.pin, 1)>>, TRUE)
         ELSE Out([self EXCEPT !.pwm = None], <<Ev("deinit", self.pin, 0)>>, FALSE)
    ELSE Out(self, <<>>, FALSE)

\* Variant: release without the 'if self.pwm' test.
release_always(self, throws) ==
    Out([self EXCEPT !.pwm = None],
        <<Ev("deinit", self.pin, IF throws THEN 1 ELSE 0)>>, FALSE)

\* Variant: release that calls deinit() and forgets 'self.pwm = None'.
release_no_clear(self, throws) ==
    IF self.pwm # None
    THEN Out(self, <<Ev("deinit", self.pin, IF throws THEN 1 ELSE 0)>>, FALSE)
    ELSE Out(self, <<>>, FALSE)

\* throws: whether the hardware deinit() throws this time.
release(self, throws) ==
    IF self.pwm # None
    THEN Out([self EXCEPT !.pwm = None],
             <<Ev("deinit", self.pin, IF throws THEN 1 ELSE 0)>>, FALSE)
    ELSE Out(self, <<>>, FALSE)

\* Variant: move's step without the clamp to the target.
move_next_noclamp(c, target_us, step) ==
    c + (IF step < 0 THEN -step ELSE step) * (IF target_us > c THEN 1 ELSE -1)

\* One pass of the body of move's while loop: the next pulse (lines 108-114).
move_next(c, target_us, step) ==
    LET direction == IF target_us > c THEN 1 ELSE -1
        abs       == IF step < 0 THEN -step ELSE step
        n         == c + abs * direction
    IN  IF (direction = 1 /\ n > target_us) \/ (direction = -1 /\ n < target_us)
        THEN target_us
        ELSE n

(***************************************************************************)
(* Calibration                                                             *)
(***************************************************************************)
SERVOS ==
    [TL |-> [pin |-> 12, open |-> 2200, closed |-> 1155],
     BL |-> [pin |-> 9,  open |-> 1560, closed |-> 2360],
     TR |-> [pin |-> 7,  open |-> 700,  closed |-> 1700],
     BR |-> [pin |-> 15, open |-> 1920, closed |-> 1040]]

LEFT_EYE  == <<"TL", "BL">>
RIGHT_EYE == <<"TR", "BR">>
ALL_LIDS  == <<"TL", "TR", "BL", "BR">>

UD_LIMITS == [down |-> 1260, up |-> 1560]
LR_LIMITS == [left |-> 820, right |-> 1920]

UD_PIN == 11
LR_PIN == 5

\* eyelids.values(), taken in the order of the SERVOS literal, then UD, then
\* LR (no property here depends on the order among the eyelids).
ReleaseOrder == <<"TL", "BL", "TR", "BR", "UD", "LR">>

Names == {"TL", "BL", "TR", "BR", "UD", "LR"}

Range(s) == {s[i] : i \in 1..Len(s)}

Obj(n) == IF n \in DOMAIN eyelids THEN eyelids[n] ELSE IF n = "UD" THEN UD ELSE LR

All == [n \in Names |-> Obj(n)]

SetObj(n, o) ==
    /\ eyelids' = IF n \in DOMAIN eyelids THEN [eyelids EXCEPT ![n] = o] ELSE eyelids
    /\ UD' = IF n = "UD" THEN o ELSE UD
    /\ LR' = IF n = "LR" THEN o ELSE LR

\* History: an actuator whose PWM output got a duty_u16 call in this step has
\* had the pulse applied that the object now records.
Applying ==
    applied' = [n \in Names |->
                  IF \E i \in 1..Len(ev') : ev'[i][1] = "duty_u16" /\ ev'[i][2] = Obj(n).pin
                  THEN <<Obj(n)'.current_us>>
                  ELSE applied[n]]

\* Variant: the 'already at target' test never succeeds.
at_target_never(c, t) == FALSE

\* if c == t: continue (line 203).
at_target(c, t) == c = t

\* Variant: move_group stepping by half the step.
\* Variant: move_group's step straight to the target.
group_next_direct(c, t) == t

group_next_half(c, t) ==
    LET d   == IF t > c THEN 1 ELSE -1
        nxt == c + d * (GROUP_STEP \div 2)
    IN  IF (d = 1 /\ nxt > t) \/ (d = -1 /\ nxt < t) THEN t ELSE nxt

\* Variant: move_group's step leaving the member where it is.
group_next_still(c, t) == c

\* Variant: move_group's step without the clamp to the target.
group_next_noclamp(c, t) == c + (IF t > c THEN 1 ELSE -1) * GROUP_STEP

\* One pass of the body of move_group's for loop for a member not yet at its
\* target: the next pulse (lines 206-209).
group_next(c, t) ==
    LET d   == IF t > c THEN 1 ELSE -1
        nxt == c + d * GROUP_STEP
    IN  IF (d = 1 /\ nxt > t) \/ (d = -1 /\ nxt < t) THEN t ELSE nxt

(***************************************************************************)
(* Calls: a handler is the sequence of calls it makes.                     *)
(***************************************************************************)
Call(f, names, state, us, step, ms) ==
    [f |-> f, names |-> names, state |-> state, us |-> us, step |-> step, ms |-> ms]

NoCall == Call("", <<>>, "", 0, 0, 0)

c_move_group(names, state) == Call("move_group", names, state, 0, 0, 0)
c_release_all              == Call("release_all", <<>>, "", 0, 0, 0)
c_enable_all_lids          == Call("enable_all_lids", <<>>, "", 0, 0, 0)
c_move(n, target_us, step, delay_ms) == Call("move", <<n>>, "", target_us, step, delay_ms)
c_release(n)               == Call("release", <<n>>, "", 0, 0, 0)
c_enable(n)                == Call("enable", <<n>>, "", 0, 0, 0)
c_write(n, us)             == Call("write", <<n>>, "", us, 0, 0)
c_sleep_ms(ms)             == Call("sleep_ms", <<>>, "", 0, 0, ms)
c_reply(body)              == Call("reply", <<>>, body, 0, 0, 0)

lids_open  == <<c_move_group(ALL_LIDS, "open"), c_release_all>>
lids_close == <<c_move_group(ALL_LIDS, "closed"), c_release_all>>
\* Variant: blink that opens first and closes last.
blink_reversed == lids_open \o <<c_sleep_ms(BLINK_HOLD_MS)>> \o lids_close

blink      == lids_close \o <<c_sleep_ms(BLINK_HOLD_MS)>> \o lids_open
\* Variant: wink_left that moves all four lids.
wink_left_all == <<c_move_group(ALL_LIDS, "closed"), c_sleep_ms(WINK_HOLD_MS),
                   c_move_group(ALL_LIDS, "open"), c_release_all>>

wink_left  == <<c_move_group(LEFT_EYE, "closed"), c_sleep_ms(WINK_HOLD_MS),
                c_move_group(LEFT_EYE, "open"), c_release_all>>
wink_right == <<c_move_group(RIGHT_EYE, "closed"), c_sleep_ms(WINK_HOLD_MS),
                c_move_group(RIGHT_EYE, "open"), c_release_all>>
look_up    == <<c_move("UD", UD_LIMITS.up, MOVE_STEP, MOVE_DELAY_MS), c_release("UD")>>
look_down  == <<c_move("UD", UD_LIMITS.down, MOVE_STEP, MOVE_DELAY_MS), c_release("UD")>>
\* Variant: center_ud that moves to the upper limit.
center_ud_up == <<c_move("UD", UD_LIMITS.up, MOVE_STEP, MOVE_DELAY_MS), c_release("UD")>>

center_ud  == <<c_move("UD", UD_MID, MOVE_STEP, MOVE_DELAY_MS), c_release("UD")>>
\* Variant: look_left that leaves LR powered.
look_left_held == <<c_move("LR", LR_MID, MOVE_STEP, MOVE_DELAY_MS),
                    c_sleep_ms(LOOK_HOLD_MS),
                    c_move("LR", LR_LIMITS.left, MOVE_STEP, MOVE_DELAY_MS)>>

look_left  == <<c_move("LR", LR_MID, MOVE_STEP, MOVE_DELAY_MS), c_sleep_ms(LOOK_HOLD_MS),
                c_move("LR", LR_LIMITS.left, MOVE_STEP, MOVE_DELAY_MS), c_release("LR")>>
look_right == <<c_move("LR", LR_MID, MOVE_STEP, MOVE_DELAY_MS), c_sleep_ms(LOOK_HOLD_MS),
                c_move("LR", LR_LIMITS.right, MOVE_STEP, MOVE_DELAY_MS), c_release("LR")>>

\* The paths a client may send; "/x" stands for every path the server does
\* not know.
Paths == {"/", "/ping", "/open", "/close", "/blink", "/wink_left", "/wink_right",
          "/look_up", "/look_down", "/look_left", "/look_right", "/center_ud",
          "/release", "/x"}

\* The branch of server's if/elif chain for a path (lines 409-422).
route(path) ==
    CASE path = "/"           -> <<c_reply("homepage")>>
      [] path = "/ping"       -> <<c_reply("pong")>>
      [] path = "/open"       -> lids_open  \o <<c_reply("open")>>
      [] path = "/close"      -> lids_close \o <<c_reply("close")>>
      [] path = "/blink"      -> blink      \o <<c_reply("blink")>>
      [] path = "/wink_left"  -> wink_left  \o <<c_reply("wink_left")>>
      [] path = "/wink_right" -> wink_right \o <<c_reply("wink_right")>>
      [] path = "/look_up"    -> look_up    \o <<c_reply("look_up")>>
      [] path = "/look_down"  -> look_down  \o <<c_reply("look_down")>>
      [] path = "/look_left"  -> look_left  \o <<c_reply("look_left")>>
      [] path = "/look_right" -> look_right \o <<c_reply("look_right")>>
      [] path = "/center_ud"  -> center_ud  \o <<c_reply("center_ud")>>
      [] path = "/release"    -> <<c_release_all, c_reply("released")>>
      [] OTHER                -> <<c_reply("404")>>

\* Where a call starts.
Entry(c) == IF c.f = "move_group" THEN "enable_all_lids" ELSE c.f

NoWrites == [n \in Names |-> 0]

\* Enter call c with rest still to do: fresh locals, fresh history.
Enter(c, rest) ==
    /\ op' = c
    /\ todo' = rest
    /\ pc' = Entry(c)
    /\ idx' = 1
    /\ cur' = <<>>
    /\ tgt' = <<>>
    /\ exc' = ""
    /\ ev' = <<>>
    /\ before' = All
    /\ iters' = 0
    /\ nwr' = NoWrites
    /\ deinits' = {}

\* The desktop assistant as its module leaves it after import: the events
\* clear, no blink thread (lines 52-53, 76-77); the main thread not started.
AsstOff ==
    /\ BLINK_STOP = FALSE
    /\ BLINK_THREAD = 0
    /\ SPEAKING = FALSE
    /\ LISTENING = FALSE
    /\ threads = [k \in 1..MaxBlinkThreads |-> "new"]
    /\ mpc = "off"
    /\ mret = ""
    /\ text = <<>>
    /\ ok = FALSE
    /\ raising = ""
    /\ sres = ""
    /\ pico_enabled = PICO_ENABLED
    /\ sent = <<>>
    /\ stop_raised = FALSE
    /\ cres = ""
    /\ rpc = "off"
    /\ silent_runs = 0
    /\ rough = ""
    /\ pico_ready = FALSE
    /\ recent = <<>>
    /\ stages = {}

(***************************************************************************)
(* Initial state: the module-level objects, no PWM driven, server waiting. *)
(***************************************************************************)
Init ==
    /\ eyelids = [k \in DOMAIN SERVOS |-> ServoLazy(SERVOS[k].pin, SERVOS[k].open)]
    /\ UD = ServoLazy(UD_PIN, UD_MID)
    /\ LR = ServoLazy(LR_PIN, LR_MID)
    /\ applied = [n \in Names |-> None]
    /\ cmd = ""
    /\ todo = <<>>
    /\ op = NoCall
    /\ pc = "idle"
    /\ idx = 1
    /\ cur = <<>>
    /\ tgt = <<>>
    /\ exc = ""
    /\ ev = <<>>
    /\ before = [n \in Names |->
                   IF n \in DOMAIN SERVOS THEN ServoLazy(SERVOS[n].pin, SERVOS[n].open)
                   ELSE IF n = "UD" THEN ServoLazy(UD_PIN, UD_MID)
                   ELSE ServoLazy(LR_PIN, LR_MID)]
    /\ iters = 0
    /\ nwr = NoWrites
    /\ deinits = {}
    /\ arg = 0
    /\ ret = <<>>
    /\ waiting = 0
    /\ queued = 0
    /\ serving = 0
    /\ executed = 0
    /\ ppc = "none"
    /\ endpoint = ""
    /\ tries = 0
    /\ attempt = 0
    /\ last_t = <<>>
    /\ result = <<>>
    /\ log = <<>>
    /\ naps = 0
    /\ AsstOff

(***************************************************************************)
(* The server loop                                                         *)
(***************************************************************************)
\* A client connects: the connection waits in the queue of s.listen(1)
\* (line 401) until the loop accepts it.
connect ==
    /\ waiting < LISTEN_BACKLOG
    /\ waiting' = waiting + 1
    /\ UNCHANGED <<servoVars, applied, ctlVars, ev, histVars, dutyVars, postVars, asstVars, runVars, linkVars>>

\* Variant: a waiting connection is served at once, whatever the loop is doing.
accept_preempting(path) ==
    /\ waiting > 0
    /\ waiting' = waiting - 1
    /\ cmd' = path
    /\ Enter(Head(route(path)), Tail(route(path)))
    /\ UNCHANGED <<servoVars, applied, dutyVars, postVars, asstVars, runVars, linkVars>>

\* accept(), recv() and the routing of one request (lines 405-422).
accept(path) ==
    /\ pc = "idle"
    /\ waiting > 0
    /\ waiting' = waiting - 1
    /\ cmd' = path
    /\ Enter(Head(route(path)), Tail(route(path)))
    /\ UNCHANGED <<servoVars, applied, dutyVars, postVars, asstVars, runVars, linkVars>>

\* reply(c, body) (lines 373-387).
reply ==
    /\ pc = "reply"
    /\ ev' = <<Ev("send", 0, 0)>>
    /\ pc' = "ret"
    /\ UNCHANGED <<servoVars, applied, cmd, todo, op, idx, cur, tgt, exc, histVars, dutyVars, waiting, postVars, asstVars, runVars, linkVars>>

\* time.sleep_ms(ms) between two calls of a gesture.
sleep_ms ==
    /\ pc = "sleep_ms"
    /\ ev' = <<Ev("sleep_ms", 0, op.ms)>>
    /\ pc' = "ret"
    /\ UNCHANGED <<servoVars, applied, cmd, todo, op, idx, cur, tgt, exc, histVars, dutyVars, waiting, postVars, asstVars, runVars, linkVars>>

\* A call of the handler has returned and the handler makes its next call.
return_ ==
    /\ pc = "ret"
    /\ todo # <<>>
    /\ Enter(Head(todo), Tail(todo))
    /\ UNCHANGED <<servoVars, applied, cmd, dutyVars, waiting, postVars, asstVars, runVars, linkVars>>

\* The handler is through: c.close(), back to accept() (line 424).
finish ==
    /\ pc = "ret"
    /\ todo = <<>>
    /\ cmd' = ""
    /\ op' = NoCall
    /\ pc' = "idle"
    /\ idx' = 1
    /\ cur' = <<>>
    /\ tgt' = <<>>
    /\ exc' = ""
    /\ ev' = <<>>
    /\ before' = All
    /\ iters' = 0
    /\ nwr' = NoWrites
    /\ deinits' = {}
    /\ UNCHANGED <<servoVars, applied, todo, dutyVars, waiting, postVars, asstVars, runVars, linkVars>>

\* Variant: enable_all_lids without the delay between the members.
enable_all_lids_at_once ==
    /\ pc = "enable_all_lids"
    /\ idx \in 1..Len(ALL_LIDS)
    /\ LET k == ALL_LIDS[idx]
           r == enable(eyelids[k])
       IN  /\ eyelids' = [eyelids EXCEPT ![k] = r.self]
           /\ ev' = r.ev
    /\ IF idx < Len(ALL_LIDS)
       THEN idx' = idx + 1 /\ pc' = pc
       ELSE idx' = 1 /\ pc' = (IF op.f = "move_group" THEN "move_group_init" ELSE "ret")
    /\ UNCHANGED <<UD, LR, cmd, todo, op, cur, tgt, exc, histVars, dutyVars, waiting, postVars, asstVars, runVars, linkVars>>
    /\ Applying

(***************************************************************************)
(* Movement helpers                                                        *)
(***************************************************************************)
\* One pass of enable_all_lids' loop (lines 169-171); move_group goes on to
\* record cur and tgt after the last pass.
enable_all_lids ==
    /\ pc = "enable_all_lids"
    /\ idx \in 1..Len(ALL_LIDS)
    /\ LET k == ALL_LIDS[idx]
           r == enable(eyelids[k])
       IN  /\ eyelids' = [eyelids EXCEPT ![k] = r.self]
           /\ ev' = r.ev \o <<Ev("sleep_ms", 0, ENABLE_STAGGER_MS)>>
    /\ IF idx < Len(ALL_LIDS)
       THEN idx' = idx + 1 /\ pc' = pc
       ELSE idx' = 1 /\ pc' = (IF op.f = "move_group" THEN "move_group_init" ELSE "ret")
    /\ UNCHANGED <<UD, LR, cmd, todo, op, cur, tgt, exc, histVars, dutyVars, waiting, postVars, asstVars, runVars, linkVars>>
    /\ Applying

\* Variant: a member without an entry for the state is silently left where it
\* is.
move_group_init_skipping ==
    /\ pc = "move_group_init"
    /\ cur' = [n \in Range(op.names) |-> eyelids[n].current_us]
    /\ tgt' = [n \in Range(op.names) |->
                 IF op.state \in DOMAIN SERVOS[n] THEN SERVOS[n][op.state]
                 ELSE eyelids[n].current_us]
    /\ pc' = "move_group_loop"
    /\ ev' = <<>>
    /\ UNCHANGED <<servoVars, applied, cmd, todo, op, idx, exc, histVars, dutyVars, waiting, postVars, asstVars, runVars, linkVars>>

\* cur = {...}; tgt = {...} (lines 195-196): a state name missing from a
\* member's calibration entry raises KeyError.
move_group_init ==
    /\ pc = "move_group_init"
    /\ IF \A n \in Range(op.names) : op.state \in DOMAIN SERVOS[n]
       THEN /\ cur' = [n \in Range(op.names) |-> eyelids[n].current_us]
            /\ tgt' = [n \in Range(op.names) |-> SERVOS[n][op.state]]
            /\ pc' = "move_group_loop"
            /\ exc' = exc
       ELSE /\ exc' = "KeyError"
            /\ pc' = "raised"
            /\ UNCHANGED <<cur, tgt>>
    /\ ev' = <<>>
    /\ UNCHANGED <<servoVars, applied, cmd, todo, op, idx, histVars, dutyVars, waiting, postVars, asstVars, runVars, linkVars>>

\* The events of the writes of one pass, in the order of names.
RECURSIVE WriteEvents(_, _, _)
WriteEvents(names, c, t) ==
    IF names = <<>> THEN <<>>
    ELSE LET n == Head(names)
         IN  (IF at_target(c[n], t[n]) THEN <<>>
              ELSE write(eyelids[n], group_next(c[n], t[n])).ev)
             \o WriteEvents(Tail(names), c, t)

\* One pass of move_group's while loop (lines 198-214): every member not at
\* its target is stepped and written, then the 6 ms delay; a pass that finds
\* every member at its target breaks.
move_group_iter ==
    /\ pc = "move_group_loop"
    /\ LET moving == {n \in Range(op.names) : ~at_target(cur[n], tgt[n])}
       IN  IF moving = {}
           THEN /\ pc' = "ret"
                /\ ev' = <<>>
                /\ UNCHANGED <<eyelids, cur, iters, nwr>>
           ELSE /\ cur' = [n \in DOMAIN cur |->
                             IF n \in moving THEN group_next(cur[n], tgt[n]) ELSE cur[n]]
                /\ eyelids' = [k \in DOMAIN eyelids |->
                                 IF k \in moving
                                 THEN write(eyelids[k], group_next(cur[k], tgt[k])).self
                                 ELSE eyelids[k]]
                /\ ev' = WriteEvents(op.names, cur, tgt)
                           \o <<Ev("sleep_ms", 0, GROUP_DELAY_MS)>>
                /\ iters' = iters + 1
                /\ nwr' = [n \in Names |-> IF n \in moving THEN nwr[n] + 1 ELSE nwr[n]]
                /\ pc' = pc
    /\ UNCHANGED <<UD, LR, cmd, todo, op, idx, tgt, exc, before, deinits, dutyVars, waiting, postVars, asstVars, runVars, linkVars>>
    /\ Applying

\* One pass of release_all (lines 180-183): the eyelids, then UD, then LR.
release_all ==
    /\ pc = "release_all"
    /\ idx \in 1..Len(ReleaseOrder)
    /\ \E throws \in BOOLEAN :
         LET n == ReleaseOrder[idx]
             r == release(Obj(n), throws)
         IN  /\ SetObj(n, r.self)
             /\ ev' = r.ev
             /\ deinits' = IF r.ev # <<>> THEN deinits \cup {<<n, throws>>} ELSE deinits
             /\ IF r.raised
                THEN exc' = "Exception" /\ pc' = "raised" /\ idx' = idx
                ELSE /\ exc' = exc
                     /\ IF idx < Len(ReleaseOrder)
                        THEN idx' = idx + 1 /\ pc' = pc
                        ELSE idx' = 1 /\ pc' = "ret"
    /\ UNCHANGED <<cmd, todo, op, cur, tgt, before, iters, nwr, dutyVars, waiting, postVars, asstVars, runVars, linkVars>>
    /\ Applying

\* s.release() called by a gesture on one object (lines 118-130).
ServoLazy_release ==
    /\ pc = "release"
    /\ \E throws \in BOOLEAN :
         LET n == op.names[1]
             r == release(Obj(n), throws)
         IN  /\ SetObj(n, r.self)
             /\ ev' = r.ev
             /\ deinits' = IF r.ev # <<>> THEN deinits \cup {<<n, throws>>} ELSE deinits
             /\ IF r.raised
                THEN exc' = "Exception" /\ pc' = "raised"
                ELSE exc' = exc /\ pc' = "ret"
    /\ UNCHANGED <<cmd, todo, op, idx, cur, tgt, before, iters, nwr, dutyVars, waiting, postVars, asstVars, runVars, linkVars>>
    /\ Applying

\* move up to its loop (lines 101-109): enable, read cur, return when there.
ServoLazy_move_enter ==
    /\ pc = "move"
    /\ LET n == op.names[1]
           r == enable(Obj(n))
       IN  /\ SetObj(n, r.self)
           /\ ev' = r.ev
           /\ cur' = (n :> r.self.current_us)
           /\ pc' = IF r.self.current_us = op.us THEN "ret" ELSE "move_loop"
    /\ UNCHANGED <<cmd, todo, op, idx, tgt, exc, histVars, dutyVars, waiting, postVars, asstVars, runVars, linkVars>>
    /\ Applying

\* One pass of move's while loop (lines 111-116).
ServoLazy_move_loop ==
    /\ pc = "move_loop"
    /\ LET n   == op.names[1]
           nxt == move_next(cur[n], op.us, op.step)
           r   == write(Obj(n), nxt)
       IN  /\ cur[n] # op.us
           /\ SetObj(n, r.self)
           /\ cur' = (n :> nxt)
           /\ ev' = r.ev \o <<Ev("sleep_ms", 0, op.ms)>>
           /\ iters' = iters + 1
           /\ nwr' = [nwr EXCEPT ![n] = @ + 1]
           /\ pc' = IF nxt = op.us THEN "ret" ELSE pc
    /\ UNCHANGED <<cmd, todo, op, idx, tgt, exc, before, deinits, dutyVars, waiting, postVars, asstVars, runVars, linkVars>>
    /\ Applying

Next ==
    \/ connect
    \/ \E path \in Paths : accept(path)
    \/ enable_all_lids
    \/ move_group_init
    \/ move_group_iter
    \/ release_all
    \/ ServoLazy_release
    \/ ServoLazy_move_enter
    \/ ServoLazy_move_loop
    \/ sleep_ms
    \/ reply
    \/ return_
    \/ finish

Spec == Init /\ [][Next]_vars

\* The steps of the controller's own program: everything of its loop but the
\* arrival of a connection and accept(), which wait for a client.
server ==
    \/ enable_all_lids
    \/ move_group_init
    \/ move_group_iter
    \/ release_all
    \/ ServoLazy_release
    \/ ServoLazy_move_enter
    \/ ServoLazy_move_loop
    \/ sleep_ms
    \/ reply
    \/ return_
    \/ finish

\* The controller runs one thread and nothing preempts it for ever: a
\* statement that can execute does, and sleep_ms returns.
SpecLive == Init /\ [][Next]_vars /\ WF_vars(server)

(***************************************************************************)
(* Direct calls: the functions of the module and the methods of one        *)
(* ServoLazy object called one after another, each running to its return   *)
(* (or to the exception it raises) before the next.                        *)
(***************************************************************************)
ApiServos  == {"UD"}
ApiPulses  == {UD_LIMITS.down, UD_MID, UD_LIMITS.up, UD_MID + OddOffset}
ApiSteps   == {MOVE_STEP, -MOVE_STEP, OddOffset}
ApiGroups  == {ALL_LIDS, LEFT_EYE, RIGHT_EYE}
ApiStates  == {"open", "closed", "half"}

ApiCalls ==
    {c_enable(n) : n \in ApiServos}
    \cup {c_release(n) : n \in ApiServos}
    \cup {c_write(n, us) : n \in ApiServos, us \in ApiPulses}
    \cup {c_move(n, us, st, MOVE_DELAY_MS) : n \in ApiServos, us \in ApiPulses, st \in ApiSteps}
    \cup {c_move_group(g, st) : g \in ApiGroups, st \in ApiStates}
    \cup {c_release_all, c_enable_all_lids}

\* The caller makes call c.
api_call(c) ==
    /\ pc = "idle"
    /\ cmd' = "api"
    /\ Enter(c, <<>>)
    /\ UNCHANGED <<servoVars, applied, dutyVars, waiting, postVars, asstVars, runVars, linkVars>>

\* s.enable() (lines 67-77).
ServoLazy_enable ==
    /\ pc = "enable"
    /\ LET n == op.names[1]
           r == enable(Obj(n))
       IN  /\ SetObj(n, r.self)
           /\ ev' = r.ev
    /\ pc' = "ret"
    /\ UNCHANGED <<cmd, todo, op, idx, cur, tgt, exc, histVars, dutyVars, waiting, postVars, asstVars, runVars, linkVars>>
    /\ Applying

\* s.write(us) (lines 79-89).
ServoLazy_write ==
    /\ pc = "write"
    /\ LET n == op.names[1]
           r == write(Obj(n), op.us)
       IN  /\ SetObj(n, r.self)
           /\ ev' = r.ev
           /\ nwr' = [nwr EXCEPT ![n] = @ + 1]
    /\ pc' = "ret"
    /\ UNCHANGED <<cmd, todo, op, idx, cur, tgt, exc, before, iters, deinits, dutyVars, waiting, postVars, asstVars, runVars, linkVars>>
    /\ Applying

\* The call raised: the caller catches the exception and goes on; the state
\* the call left behind stays.
api_catch ==
    /\ pc = "raised"
    /\ cmd' = ""
    /\ op' = NoCall
    /\ todo' = <<>>
    /\ pc' = "idle"
    /\ idx' = 1
    /\ cur' = <<>>
    /\ tgt' = <<>>
    /\ exc' = ""
    /\ ev' = <<>>
    /\ before' = All
    /\ iters' = 0
    /\ nwr' = NoWrites
    /\ deinits' = {}
    /\ UNCHANGED <<servoVars, applied, dutyVars, waiting, postVars, asstVars, runVars, linkVars>>

NextApi ==
    \/ \E c \in ApiCalls : api_call(c)
    \/ ServoLazy_enable
    \/ ServoLazy_write
    \/ ServoLazy_release
    \/ ServoLazy_move_enter
    \/ ServoLazy_move_loop
    \/ enable_all_lids
    \/ move_group_init
    \/ move_group_iter
    \/ release_all
    \/ api_catch
    \/ finish

SpecApi == Init /\ [][NextApi]_vars

(***************************************************************************)
(* us_to_duty over the servo range.                                        *)
(***************************************************************************)
InitDuty ==
    /\ eyelids = [k \in DOMAIN SERVOS |-> ServoLazy(SERVOS[k].pin, SERVOS[k].open)]
    /\ UD = ServoLazy(UD_PIN, UD_MID)
    /\ LR = ServoLazy(LR_PIN, LR_MID)
    /\ applied = [n \in Names |-> None]
    /\ cmd = ""
    /\ todo = <<>>
    /\ op = NoCall
    /\ pc = "idle"
    /\ idx = 1
    /\ cur = <<>>
    /\ tgt = <<>>
    /\ exc = ""
    /\ ev = <<>>
    /\ before = [n \in Names |-> ServoLazy(0, 0)]
    /\ iters = 0
    /\ nwr = NoWrites
    /\ deinits = {}
    /\ arg \in US_MIN..US_MAX
    /\ ret = <<>>
    /\ waiting = 0
    /\ queued = 0
    /\ serving = 0
    /\ executed = 0
    /\ ppc = "none"
    /\ endpoint = ""
    /\ tries = 0
    /\ attempt = 0
    /\ last_t = <<>>
    /\ result = <<>>
    /\ log = <<>>
    /\ naps = 0
    /\ AsstOff

call_us_to_duty ==
    /\ ret = <<>>
    /\ ret' = <<us_to_duty(arg)>>
    /\ UNCHANGED <<servoVars, applied, ctlVars, ev, histVars, arg, waiting, postVars, asstVars, runVars, linkVars>>

NextDuty == call_us_to_duty

SpecDuty == InitDuty /\ [][NextDuty]_vars

(***************************************************************************)
(* pico_post_reliable of the desktop assistant                             *)
(* (src/integrated_ai_assistant.py)                                        *)
(***************************************************************************)
MaxTries == 6           \* the largest tries the caller passes (the default)

PostEndpoints == {"/blink", "/release"}

\* What requests.post(url, timeout) can give pico_request: the text of a
\* response, which may be empty, or an exception (None here).
PostOutcomes == {None, <<"">>, <<"blink">>}

\* pico_request("POST", endpoint, timeout=1.2) (lines 79-98), r the outcome
\* of requests.post.
pico_request(r) == IF ~PICO_ENABLED THEN None ELSE r

\* Variant: `if t:` instead of `if t is not None:`.
is_not_None_truthy(x) == x # None /\ x[1] # ""

\* `t is not None` (line 120).
is_not_None(x) == x # None

InitPost ==
    /\ eyelids = [k \in DOMAIN SERVOS |-> ServoLazy(SERVOS[k].pin, SERVOS[k].open)]
    /\ UD = ServoLazy(UD_PIN, UD_MID)
    /\ LR = ServoLazy(LR_PIN, LR_MID)
    /\ applied = [n \in Names |-> None]
    /\ cmd = ""
    /\ todo = <<>>
    /\ op = NoCall
    /\ pc = "idle"
    /\ idx = 1
    /\ cur = <<>>
    /\ tgt = <<>>
    /\ exc = ""
    /\ ev = <<>>
    /\ before = [n \in Names |-> ServoLazy(0, 0)]
    /\ iters = 0
    /\ nwr = NoWrites
    /\ deinits = {}
    /\ arg = 0
    /\ ret = <<>>
    /\ waiting = 0
    /\ queued = 0
    /\ serving = 0
    /\ executed = 0
    /\ ppc = "for"
    /\ endpoint \in PostEndpoints
    /\ tries \in 0..MaxTries
    /\ attempt = 0
    /\ last_t = None
    /\ result = <<>>
    /\ log = <<>>
    /\ naps = 0
    /\ AsstOff

\* `for _ in range(tries):` (line 118) and, once the range is used up,
\* `return False` (line 123).
post_for ==
    /\ ppc = "for"
    /\ IF attempt < tries
       THEN /\ attempt' = attempt + 1
            /\ ppc' = "request"
            /\ result' = result
       ELSE /\ result' = <<FALSE>>
            /\ ppc' = "return"
            /\ attempt' = attempt
    /\ UNCHANGED <<servoVars, applied, ctlVars, ev, histVars, dutyVars, waiting,
                   endpoint, tries, last_t, log, naps, asstVars, runVars, linkVars>>

\* `t = pico_request("POST", endpoint, timeout=1.2)` (line 119).
post_request ==
    /\ ppc = "request"
    /\ \E r \in PostOutcomes :
          /\ last_t' = pico_request(r)
          /\ log' = Append(log, pico_request(r))
    /\ ppc' = "if"
    /\ UNCHANGED <<servoVars, applied, ctlVars, ev, histVars, dutyVars, waiting,
                   endpoint, tries, attempt, result, naps, asstVars, runVars, linkVars>>

\* `if t is not None: return True` and `time.sleep(delay_s)` (lines 120-122).
post_if ==
    /\ ppc = "if"
    /\ IF is_not_None(last_t)
       THEN /\ result' = <<TRUE>>
            /\ ppc' = "return"
            /\ naps' = naps
       ELSE /\ naps' = naps + 1
            /\ ppc' = "for"
            /\ result' = result
    /\ UNCHANGED <<servoVars, applied, ctlVars, ev, histVars, dutyVars, waiting,
                   endpoint, tries, attempt, last_t, log, asstVars, runVars, linkVars>>

NextPost ==
    \/ post_for
    \/ post_request
    \/ post_if

SpecPost == InitPost /\ [][NextPost]_vars

(***************************************************************************)
(* The blink thread and the events of the desktop assistant                *)
(* (src/integrated_ai_assistant.py)                                        *)
(***************************************************************************)
ThreadIds == 1..MaxBlinkThreads

\* t.is_alive(): started and not yet returned from blink_loop.
is_alive(k) == threads[k] \notin {"new", "done"}

InitAsst ==
    /\ eyelids = [k \in DOMAIN SERVOS |-> ServoLazy(SERVOS[k].pin, SERVOS[k].open)]
    /\ UD = ServoLazy(UD_PIN, UD_MID)
    /\ LR = ServoLazy(LR_PIN, LR_MID)
    /\ applied = [n \in Names |-> None]
    /\ cmd = ""
    /\ todo = <<>>
    /\ op = NoCall
    /\ pc = "idle"
    /\ idx = 1
    /\ cur = <<>>
    /\ tgt = <<>>
    /\ exc = ""
    /\ ev = <<>>
    /\ before = [n \in Names |-> ServoLazy(0, 0)]
    /\ iters = 0
    /\ nwr = NoWrites
    /\ deinits = {}
    /\ arg = 0
    /\ ret = <<>>
    /\ waiting = 0
    /\ queued = 0
    /\ serving = 0
    /\ executed = 0
    /\ ppc = "none"
    /\ endpoint = ""
    /\ tries = 0
    /\ attempt = 0
    /\ last_t = <<>>
    /\ result = <<>>
    /\ log = <<>>
    /\ naps = 0
    /\ BLINK_STOP = FALSE
    /\ BLINK_THREAD = 0
    /\ SPEAKING = FALSE
    /\ LISTENING = FALSE
    /\ threads = [k \in ThreadIds |-> "new"]
    /\ mpc = "main"
    /\ mret = ""
    /\ text = <<>>
    /\ ok = FALSE
    /\ raising = ""
    /\ sres = ""
    /\ pico_enabled \in BOOLEAN
    /\ sent = <<>>
    /\ stop_raised = FALSE
    /\ cres = ""
    /\ rpc = "off"
    /\ silent_runs = 0
    /\ rough = ""
    /\ pico_ready = FALSE
    /\ recent = <<>>
    /\ stages = {}

\* Everything but the assistant's own variables.
picoSide == <<servoVars, applied, ctlVars, ev, histVars, dutyVars, waiting, postVars, runVars, linkVars>>

\* The main thread calls stop_blinking() (from cleanup_face, line 640).
call_stop_blinking ==
    /\ mpc = "main"
    /\ mpc' = "stop_blinking"
    /\ mret' = "main"
    /\ UNCHANGED <<picoSide, cleanVars, speakVars, BLINK_STOP, BLINK_THREAD, SPEAKING, LISTENING, threads>>

\* The main thread calls start_blinking() (from run_once, line 691), whose
\* first statement is stop_blinking() (line 248).
call_start_blinking ==
    /\ mpc = "main"
    /\ \E k \in ThreadIds : threads[k] = "new"
    /\ mpc' = "stop_blinking"
    /\ mret' = "start_blinking"
    /\ UNCHANGED <<picoSide, cleanVars, speakVars, BLINK_STOP, BLINK_THREAD, SPEAKING, LISTENING, threads>>

\* BLINK_STOP.set() (line 217).
stop_blinking_set ==
    /\ mpc = "stop_blinking"
    /\ BLINK_STOP' = TRUE
    /\ mpc' = "join"
    /\ UNCHANGED <<picoSide, cleanVars, speakVars, BLINK_THREAD, SPEAKING, LISTENING, threads, mret>>

\* Lines 219-221. join(timeout=1.0) returns when the thread has ended, or
\* after one second: the thread checks BLINK_STOP every 0.1 s while it waits,
\* but not inside eyes_blink(), where one request alone may last 1.2 s.
stop_blinking_join ==
    /\ mpc = "join"
    /\ IF BLINK_THREAD # 0 /\ is_alive(BLINK_THREAD)
       THEN threads[BLINK_THREAD] \in {"eyes_blink", "request"}
       ELSE TRUE
    /\ BLINK_THREAD' = 0
    /\ mpc' = mret
    /\ mret' = ""
    /\ UNCHANGED <<picoSide, cleanVars, speakVars, BLINK_STOP, SPEAKING, LISTENING, threads>>

\* BLINK_STOP.clear() (line 249).
start_blinking_clear ==
    /\ mpc = "start_blinking"
    /\ BLINK_STOP' = FALSE
    /\ mpc' = "Thread"
    /\ UNCHANGED <<picoSide, cleanVars, speakVars, BLINK_THREAD, SPEAKING, LISTENING, threads, mret>>

\* BLINK_THREAD = threading.Thread(target=blink_loop); BLINK_THREAD.start()
\* (lines 250-251).
start_blinking_Thread ==
    /\ mpc = "Thread"
    /\ LET k == CHOOSE x \in ThreadIds :
                   threads[x] = "new" /\ \A y \in ThreadIds : threads[y] = "new" => x <= y
       IN  /\ BLINK_THREAD' = k
           /\ threads' = [threads EXCEPT ![k] = "while"]
    /\ mpc' = "main"
    /\ UNCHANGED <<picoSide, cleanVars, speakVars, BLINK_STOP, SPEAKING, LISTENING, mret>>

\* `while not BLINK_STOP.is_set():` (line 229).
blink_loop_while(k) ==
    /\ threads[k] = "while"
    /\ threads' = [threads EXCEPT ![k] = IF BLINK_STOP THEN "done" ELSE "wait"]
    /\ UNCHANGED <<picoSide, cleanVars, speakVars, BLINK_STOP, BLINK_THREAD, SPEAKING, LISTENING, mpc, mret>>

\* The waiting loop (lines 230-235): it ends when wait_s has passed, or
\* returns when it finds BLINK_STOP set.
blink_loop_wait(k) ==
    /\ threads[k] = "wait"
    /\ \E elapsed \in BOOLEAN :
          IF elapsed THEN threads' = [threads EXCEPT ![k] = "if"]
          ELSE /\ BLINK_STOP
               /\ threads' = [threads EXCEPT ![k] = "done"]
    /\ UNCHANGED <<picoSide, cleanVars, speakVars, BLINK_STOP, BLINK_THREAD, SPEAKING, LISTENING, mpc, mret>>

\* `if (not SPEAKING.is_set()) and (not LISTENING.is_set()):` (line 238).
blink_loop_if(k) ==
    /\ threads[k] = "if"
    /\ threads' = [threads EXCEPT ![k] =
                     IF ~SPEAKING /\ ~LISTENING THEN "eyes_blink" ELSE "while"]
    /\ UNCHANGED <<picoSide, cleanVars, speakVars, BLINK_STOP, BLINK_THREAD, SPEAKING, LISTENING, mpc, mret>>

\* eyes_blink() (line 239) sends its request: requests.post of the first
\* attempt of pico_post_reliable("/blink").
eyes_blink_post(k) ==
    /\ threads[k] = "eyes_blink"
    /\ threads' = [threads EXCEPT ![k] = "request"]
    /\ UNCHANGED <<picoSide, cleanVars, speakVars, BLINK_STOP, BLINK_THREAD, SPEAKING, LISTENING, mpc, mret>>

\* eyes_blink() returns, after a response or after the last failed attempt.
eyes_blink_return(k) ==
    /\ threads[k] = "request"
    /\ threads' = [threads EXCEPT ![k] = "while"]
    /\ UNCHANGED <<picoSide, cleanVars, speakVars, BLINK_STOP, BLINK_THREAD, SPEAKING, LISTENING, mpc, mret>>

\* record_utterance (lines 529-608): LISTENING.set() ... finally
\* LISTENING.clear().
record_utterance_set ==
    /\ mpc = "main"
    /\ LISTENING' = TRUE
    /\ mpc' = "record_utterance"
    /\ UNCHANGED <<picoSide, cleanVars, speakVars, BLINK_STOP, BLINK_THREAD, SPEAKING, threads, mret>>

record_utterance_finally ==
    /\ mpc = "record_utterance"
    /\ LISTENING' = FALSE
    /\ mpc' = "main"
    /\ UNCHANGED <<picoSide, cleanVars, speakVars, BLINK_STOP, BLINK_THREAD, SPEAKING, threads, mret>>

\* The texts the caller may pass: None, empty, blank, and one to say.
Texts == {None, <<"">>, <<"   ">>, <<" hi ">>}

PIPER_MODEL_FALLBACK == ""

\* str.strip() on the strings of Texts.
strip(x) == IF x = "   " THEN "" ELSE IF x = " hi " THEN "hi" ELSE x

\* `text or ""` (line 364).
or_empty(x) == IF x = None THEN "" ELSE x[1]

\* The main thread calls speak_text_blocking(text) (run_once, line 756).
call_speak ==
    /\ mpc = "main"
    /\ \E x \in Texts : text' = x
    /\ ok' = FALSE
    /\ sres' = ""
    /\ mpc' = "speak"
    /\ UNCHANGED <<picoSide, cleanVars, BLINK_STOP, BLINK_THREAD, SPEAKING, LISTENING, threads, mret,
                   raising>>

\* `text = (text or "").strip(); if not text: return` (lines 364-366).
speak_strip ==
    /\ mpc = "speak"
    /\ text' = <<strip(or_empty(text))>>
    /\ IF strip(or_empty(text)) = ""
       THEN /\ mpc' = "main"
            /\ sres' = "returned"
       ELSE /\ mpc' = "SPEAKING.set"
            /\ sres' = sres
    /\ UNCHANGED <<picoSide, cleanVars, BLINK_STOP, BLINK_THREAD, SPEAKING, LISTENING, threads, mret,
                   ok, raising>>

\* SPEAKING.set() (line 368).
speak_set ==
    /\ mpc = "SPEAKING.set"
    /\ SPEAKING' = TRUE
    /\ mpc' = "tempfile"
    /\ UNCHANGED <<picoSide, cleanVars, BLINK_STOP, BLINK_THREAD, LISTENING, threads, mret, speakVars>>

\* tempfile.NamedTemporaryFile (lines 370-371), which may raise.
speak_tempfile ==
    /\ mpc = "tempfile"
    /\ \E raises \in BOOLEAN :
          IF raises THEN raising' = "OSError" /\ mpc' = "finally"
          ELSE raising' = raising /\ mpc' = "piper"
    /\ UNCHANGED <<picoSide, cleanVars, BLINK_STOP, BLINK_THREAD, SPEAKING, LISTENING, threads, mret,
                   text, ok, sres>>

\* Synthesis with the primary model, then with the fallback model if one is
\* configured (lines 373-400): ok is True when a model exists and piper ran;
\* what piper raises is caught and logged.
speak_piper ==
    /\ mpc = "piper"
    /\ \E primary \in BOOLEAN, fallback \in BOOLEAN :
          ok' = IF primary THEN TRUE
                ELSE IF PIPER_MODEL_FALLBACK # "" THEN fallback
                ELSE FALSE
    /\ mpc' = "if_not_ok"
    /\ UNCHANGED <<picoSide, cleanVars, BLINK_STOP, BLINK_THREAD, SPEAKING, LISTENING, threads, mret,
                   text, raising, sres>>

\* `if not ok: return` (lines 402-403), through the finally clause.
speak_if_not_ok ==
    /\ mpc = "if_not_ok"
    /\ mpc' = IF ~ok THEN "finally" ELSE "play"
    /\ UNCHANGED <<picoSide, cleanVars, BLINK_STOP, BLINK_THREAD, SPEAKING, LISTENING, threads, mret,
                   speakVars>>

\* sf.read, sd.stop (its exception swallowed), sd.play, sd.wait (lines
\* 405-411); sf.read, sd.play and sd.wait may raise.
speak_play ==
    /\ mpc = "play"
    /\ \E raises \in BOOLEAN :
          raising' = IF raises THEN "RuntimeError" ELSE raising
    /\ mpc' = "finally"
    /\ UNCHANGED <<picoSide, cleanVars, BLINK_STOP, BLINK_THREAD, SPEAKING, LISTENING, threads, mret,
                   text, ok, sres>>

\* Variant: the clear as a last statement of the try block, not a finally.
speak_finally_try ==
    /\ mpc = "finally"
    /\ SPEAKING' = IF raising # "" THEN SPEAKING ELSE FALSE
    /\ sres' = IF raising # "" THEN "raised" ELSE "returned"
    /\ raising' = ""
    /\ mpc' = "main"
    /\ UNCHANGED <<picoSide, cleanVars, BLINK_STOP, BLINK_THREAD, LISTENING, threads, mret, text, ok>>

\* `finally: SPEAKING.clear()` (lines 413-414); the call then returns, or the
\* exception goes on to the caller, which catches and logs it (lines 755-758).
speak_finally ==
    /\ mpc = "finally"
    /\ SPEAKING' = FALSE
    /\ sres' = IF raising # "" THEN "raised" ELSE "returned"
    /\ raising' = ""
    /\ mpc' = "main"
    /\ UNCHANGED <<picoSide, cleanVars, BLINK_STOP, BLINK_THREAD, LISTENING, threads, mret, text, ok>>

\* cleanup_face() is called (main, lines 780 and 786); its first statement,
\* inside a try, is stop_blinking() (lines 639-640).
call_cleanup_face ==
    /\ mpc = "main"
    /\ mpc' = "stop_blinking"
    /\ mret' = "except"
    /\ sent' = <<>>
    /\ stop_raised' = FALSE
    /\ cres' = ""
    /\ UNCHANGED <<picoSide, speakVars, BLINK_STOP, BLINK_THREAD, SPEAKING, LISTENING, threads,
                   pico_enabled>>

\* stop_blinking() raises inside cleanup_face, as the test of
\* test_integrated_ai_assistant.py lines 489-497 makes it do.
stop_blinking_raise ==
    /\ mpc = "join"
    /\ mret = "except"
    /\ raising' = "Exception"
    /\ stop_raised' = TRUE
    /\ mpc' = "except"
    /\ mret' = ""
    /\ UNCHANGED <<picoSide, BLINK_STOP, BLINK_THREAD, SPEAKING, LISTENING, threads,
                   text, ok, sres, pico_enabled, sent, cres>>

\* Variant: no except clause around stop_blinking().
cleanup_except_missing ==
    /\ mpc = "except"
    /\ IF raising # ""
       THEN /\ mpc' = "main"
            /\ cres' = "raised"
       ELSE /\ mpc' = "if PICO_ENABLED"
            /\ cres' = cres
    /\ raising' = ""
    /\ UNCHANGED <<picoSide, BLINK_STOP, BLINK_THREAD, SPEAKING, LISTENING, threads, mret,
                   text, ok, sres, pico_enabled, sent, stop_raised>>

\* `except Exception: pass` (lines 641-642).
cleanup_except ==
    /\ mpc = "except"
    /\ raising' = ""
    /\ mpc' = "if PICO_ENABLED"
    /\ UNCHANGED <<picoSide, BLINK_STOP, BLINK_THREAD, SPEAKING, LISTENING, threads, mret,
                   text, ok, sres, cleanVars>>

\* `if PICO_ENABLED:` (line 643).
cleanup_if ==
    /\ mpc = "if PICO_ENABLED"
    /\ IF pico_enabled
       THEN /\ mpc' = "eyes_close"
            /\ cres' = cres
       ELSE /\ mpc' = "main"
            /\ cres' = "returned"
    /\ UNCHANGED <<picoSide, speakVars, BLINK_STOP, BLINK_THREAD, SPEAKING, LISTENING, threads,
                   mret, pico_enabled, sent, stop_raised>>

\* eyes_close() (line 645): pico_post_reliable("/close") sends its request,
\* up to six times, and returns True or False; it does not raise.
cleanup_eyes_close ==
    /\ mpc = "eyes_close"
    /\ sent' = Append(sent, "/close")
    /\ mpc' = "eyes_release"
    /\ UNCHANGED <<picoSide, speakVars, BLINK_STOP, BLINK_THREAD, SPEAKING, LISTENING, threads,
                   mret, pico_enabled, stop_raised, cres>>

\* eyes_release() (line 646), then cleanup_face returns.
cleanup_eyes_release ==
    /\ mpc = "eyes_release"
    /\ sent' = Append(sent, "/release")
    /\ mpc' = "main"
    /\ cres' = "returned"
    /\ UNCHANGED <<picoSide, speakVars, BLINK_STOP, BLINK_THREAD, SPEAKING, LISTENING, threads,
                   mret, pico_enabled, stop_raised>>

NextAsst ==
    \/ call_stop_blinking
    \/ call_start_blinking
    \/ stop_blinking_set
    \/ stop_blinking_join
    \/ start_blinking_clear
    \/ start_blinking_Thread
    \/ \E k \in ThreadIds : blink_loop_while(k)
    \/ \E k \in ThreadIds : blink_loop_wait(k)
    \/ \E k \in ThreadIds : blink_loop_if(k)
    \/ \E k \in ThreadIds : eyes_blink_post(k)
    \/ \E k \in ThreadIds : eyes_blink_return(k)
    \/ record_utterance_set
    \/ record_utterance_finally
    \/ call_cleanup_face
    \/ stop_blinking_raise
    \/ cleanup_except
    \/ cleanup_if
    \/ cleanup_eyes_close
    \/ cleanup_eyes_release
    \/ call_speak
    \/ speak_strip
    \/ speak_set
    \/ speak_tempfile
    \/ speak_piper
    \/ speak_if_not_ok
    \/ speak_play
    \/ speak_finally

SpecAsst == InitAsst /\ [][NextAsst]_vars

(***************************************************************************)
(* The conversation loop of run_once (src/integrated_ai_assistant.py)      *)
(***************************************************************************)
\* What record_utterance can return as rough: nothing, blanks, words.
Roughs == {"", "   ", " hi "}

\* The last three entries of a sequence.
Last3(q) == IF Len(q) <= 3 THEN q ELSE SubSeq(q, Len(q) - 2, Len(q))

InitRun ==
    /\ eyelids = [k \in DOMAIN SERVOS |-> ServoLazy(SERVOS[k].pin, SERVOS[k].open)]
    /\ UD = ServoLazy(UD_PIN, UD_MID)
    /\ LR = ServoLazy(LR_PIN, LR_MID)
    /\ applied = [n \in Names |-> None]
    /\ cmd = ""
    /\ todo = <<>>
    /\ op = NoCall
    /\ pc = "idle"
    /\ idx = 1
    /\ cur = <<>>
    /\ tgt = <<>>
    /\ exc = ""
    /\ ev = <<>>
    /\ before = [n \in Names |-> ServoLazy(0, 0)]
    /\ iters = 0
    /\ nwr = NoWrites
    /\ deinits = {}
    /\ arg = 0
    /\ ret = <<>>
    /\ waiting = 0
    /\ queued = 0
    /\ serving = 0
    /\ executed = 0
    /\ ppc = "none"
    /\ endpoint = ""
    /\ tries = 0
    /\ attempt = 0
    /\ last_t = <<>>
    /\ result = <<>>
    /\ log = <<>>
    /\ naps = 0
    /\ BLINK_STOP = FALSE
    /\ BLINK_THREAD = 0
    /\ SPEAKING = FALSE
    /\ LISTENING = FALSE
    /\ threads = [k \in ThreadIds |-> "new"]
    /\ mpc = "run_once"
    /\ mret = ""
    /\ text = <<>>
    /\ ok = FALSE
    /\ raising = ""
    /\ sres = ""
    /\ pico_enabled = PICO_ENABLED
    /\ sent = <<>>
    /\ stop_raised = FALSE
    /\ cres = ""
    /\ rpc = "record_utterance"
    /\ silent_runs = 0
    /\ rough = ""
    /\ pico_ready \in BOOLEAN
    /\ recent = <<>>
    /\ stages = {}

runFrame == <<servoVars, applied, ctlVars, ev, histVars, dutyVars, waiting, postVars, asstVars,
             linkVars>>

\* The try block of lines 698-707: record_utterance returns rough, or raises
\* and the loop continues.
run_record ==
    /\ rpc = "record_utterance"
    /\ \E raises \in BOOLEAN, r \in Roughs :
          IF raises
          THEN UNCHANGED <<rpc, rough, recent, stages>>
          ELSE /\ rough' = r
               /\ recent' = Last3(Append(recent, strip(r) # ""))
               /\ stages' = {}
               /\ rpc' = "if not rough"
    /\ UNCHANGED <<runFrame, silent_runs, pico_ready>>

\* `if not (rough or "").strip(): silent_runs += 1` (lines 709-710), else
\* `silent_runs = 0` (line 722).
run_if_not_rough ==
    /\ rpc = "if not rough"
    /\ IF strip(rough) = ""
       THEN /\ silent_runs' = silent_runs + 1
            /\ rpc' = "if silent_runs"
       ELSE /\ silent_runs' = 0
            /\ rpc' = "whisper_tx"
    /\ UNCHANGED <<runFrame, rough, pico_ready, recent, stages>>

\* Variant: the counter is not reset after the re-selection.
run_if_silent_runs_kept ==
    /\ rpc = "if silent_runs"
    /\ IF silent_runs >= 3
       THEN /\ stages' = {"pick_input_device"}
            /\ recent' = <<>>
       ELSE UNCHANGED <<recent, stages>>
    /\ silent_runs' = IF silent_runs >= 4 THEN 0 ELSE silent_runs
    /\ rpc' = "record_utterance"
    /\ UNCHANGED <<runFrame, rough, pico_ready>>

\* `if silent_runs >= 3:` re-select the input device (its exception logged)
\* and `silent_runs = 0`; `continue` (lines 711-720).
run_if_silent_runs ==
    /\ rpc = "if silent_runs"
    /\ IF silent_runs >= 3
       THEN /\ stages' = {"pick_input_device"}
            /\ recent' = <<>>
            /\ silent_runs' = 0
       ELSE UNCHANGED <<recent, stages, silent_runs>>
    /\ rpc' = "record_utterance"
    /\ UNCHANGED <<runFrame, rough, pico_ready>>

\* whisper_tx(wav_path), its exception logged (lines 724-728).
run_whisper_tx ==
    /\ rpc = "whisper_tx"
    /\ stages' = stages \cup {"whisper_tx"}
    /\ rpc' = "face_thinking_small"
    /\ UNCHANGED <<runFrame, silent_runs, rough, pico_ready, recent>>

\* face_thinking_small() when the face is there (lines 733-737).
run_face_thinking_small ==
    /\ rpc = "face_thinking_small"
    /\ stages' = IF pico_enabled /\ pico_ready THEN stages \cup {"face_thinking_small"}
                 ELSE stages
    /\ rpc' = "ollama_chat_once"
    /\ UNCHANGED <<runFrame, silent_runs, rough, pico_ready, recent>>

\* ollama_chat_once(messages), its exception logged (lines 739-743).
run_ollama_chat_once ==
    /\ rpc = "ollama_chat_once"
    /\ stages' = stages \cup {"ollama_chat_once"}
    /\ rpc' = "face_neutral"
    /\ UNCHANGED <<runFrame, silent_runs, rough, pico_ready, recent>>

\* face_neutral() when the face is there (lines 749-753).
run_face_neutral ==
    /\ rpc = "face_neutral"
    /\ stages' = IF pico_enabled /\ pico_ready THEN stages \cup {"face_neutral"}
                 ELSE stages
    /\ rpc' = "speak_text_blocking"
    /\ UNCHANGED <<runFrame, silent_runs, rough, pico_ready, recent>>

\* speak_text_blocking(reply), its exception logged (lines 755-758); back to
\* the top of the loop.
run_speak_text_blocking ==
    /\ rpc = "speak_text_blocking"
    /\ stages' = stages \cup {"speak_text_blocking"}
    /\ rpc' = "record_utterance"
    /\ UNCHANGED <<runFrame, silent_runs, rough, pico_ready, recent>>

NextRun ==
    \/ run_record
    \/ run_if_not_rough
    \/ run_if_silent_runs
    \/ run_whisper_tx
    \/ run_face_thinking_small
    \/ run_ollama_chat_once
    \/ run_face_neutral
    \/ run_speak_text_blocking

SpecRun == InitRun /\ [][NextRun]_vars

(***************************************************************************)
(* One call of pico_post_reliable by the assistant against the server loop *)
(* of the controller                                                       *)
(***************************************************************************)
InitLink ==
    /\ eyelids = [k \in DOMAIN SERVOS |-> ServoLazy(SERVOS[k].pin, SERVOS[k].open)]
    /\ UD = ServoLazy(UD_PIN, UD_MID)
    /\ LR = ServoLazy(LR_PIN, LR_MID)
    /\ applied = [n \in Names |-> None]
    /\ cmd = ""
    /\ todo = <<>>
    /\ op = NoCall
    /\ pc = "idle"
    /\ idx = 1
    /\ cur = <<>>
    /\ tgt = <<>>
    /\ exc = ""
    /\ ev = <<>>
    /\ before = [n \in Names |->
                   IF n \in DOMAIN SERVOS THEN ServoLazy(SERVOS[n].pin, SERVOS[n].open)
                   ELSE IF n = "UD" THEN ServoLazy(UD_PIN, UD_MID)
                   ELSE ServoLazy(LR_PIN, LR_MID)]
    /\ iters = 0
    /\ nwr = NoWrites
    /\ deinits = {}
    /\ arg = 0
    /\ ret = <<>>
    /\ waiting = 0
    /\ queued = 0
    /\ serving = 0
    /\ executed = 0
    /\ ppc = "for"
    /\ endpoint \in PostEndpoints
    /\ tries = MaxTries
    /\ attempt = 0
    /\ last_t = None
    /\ result = <<>>
    /\ log = <<>>
    /\ naps = 0
    /\ AsstOff

linkFrame == <<dutyVars, asstVars, runVars>>

\* requests.post (line 95) connects and sends the request: the connection
\* goes into the queue of s.listen(1) when there is room; when there is none
\* the post fails and pico_request returns None (lines 97-98).
link_post ==
    /\ ppc = "request"
    /\ IF waiting < LISTEN_BACKLOG
       THEN /\ queued' = attempt
            /\ waiting' = waiting + 1
            /\ ppc' = "wait"
            /\ UNCHANGED <<last_t, log>>
       ELSE /\ last_t' = pico_request(None)
            /\ log' = Append(log, pico_request(None))
            /\ ppc' = "if"
            /\ UNCHANGED <<queued, waiting>>
    /\ UNCHANGED <<servoVars, applied, ctlVars, ev, histVars, linkFrame,
                   endpoint, tries, attempt, result, naps, serving, executed>>

\* The timeout of 1.2 s (line 119) passes while the request waits in the
\* queue or its handler is still running: requests.post raises and
\* pico_request returns None (lines 97-98). The connection stays where it is.
link_timeout ==
    /\ ppc = "wait"
    /\ queued = attempt \/ (serving = attempt /\ pc # "idle")
    /\ last_t' = pico_request(None)
    /\ log' = Append(log, pico_request(None))
    /\ ppc' = "if"
    /\ UNCHANGED <<servoVars, applied, ctlVars, ev, histVars, linkFrame, waiting,
                   endpoint, tries, attempt, result, naps, linkVars>>

\* accept(), recv() and routing (lines 405-422) of the connection in the
\* queue; a connection whose client has given up is accepted like any other.
link_accept ==
    /\ pc = "idle"
    /\ queued # 0
    /\ serving' = queued
    /\ queued' = 0
    /\ waiting' = waiting - 1
    /\ executed' = executed + 1
    /\ cmd' = endpoint
    /\ Enter(Head(route(endpoint)), Tail(route(endpoint)))
    /\ UNCHANGED <<servoVars, applied, linkFrame, postVars>>

\* reply(c, body) (lines 373-387). A client still waiting for this
\* connection gets the body as r.text; when it has given up, c.send either
\* goes through unheard or raises OSError, which nothing in server() catches.
link_reply ==
    /\ pc = "reply"
    /\ IF ppc = "wait" /\ serving = attempt
       THEN /\ last_t' = pico_request(<<op.state>>)
            /\ log' = Append(log, pico_request(<<op.state>>))
            /\ ppc' = "if"
            /\ ev' = <<Ev("send", 0, 0)>>
            /\ pc' = "ret"
            /\ exc' = exc
       ELSE /\ UNCHANGED <<last_t, log, ppc>>
            /\ \E raises \in BOOLEAN :
                  IF raises
                  THEN ev' = <<>> /\ pc' = "raised" /\ exc' = "OSError"
                  ELSE ev' = <<Ev("send", 0, 0)>> /\ pc' = "ret" /\ exc' = exc
    /\ UNCHANGED <<servoVars, applied, cmd, todo, op, idx, cur, tgt, histVars, linkFrame, waiting,
                   endpoint, tries, attempt, result, naps, linkVars>>

NextLink ==
    \/ post_for
    \/ link_post
    \/ link_timeout
    \/ post_if
    \/ link_accept
    \/ enable_all_lids
    \/ move_group_init
    \/ move_group_iter
    \/ release_all
    \/ sleep_ms
    \/ link_reply
    \/ return_
    \/ finish

SpecLink == InitLink /\ [][NextLink]_vars

(***************************************************************************)
(* Properties                                                              *)
(***************************************************************************)
Abs(x) == IF x < 0 THEN -x ELSE x

CeilDiv(a, b) == (a + b - 1) \div b

Between(x, a, b) == (a <= x /\ x <= b) \/ (b <= x /\ x <= a)

MaxOf(S) == CHOOSE x \in S : \A y \in S : y <= x

\* move_group is past its enables and has recorded cur and tgt.
InGroupLoop == op.f = "move_group" /\ pc \in {"move_group_loop", "ret"}

GroupReturned == op.f = "move_group" /\ pc = "ret"

\* The distance a member had to travel when move_group was entered.
StartDist(n) == Abs(before[n].current_us - SERVOS[n][op.state])

Dist(n) == Abs(eyelids[n].current_us - SERVOS[n][op.state])

\* C1: when move_group(names, state) returns, every member's current_us is
\* exactly SERVOS[n][state]; on the way no member's pulse leaves the interval
\* between its starting pulse and its target (no overshoot).
C1_GroupReachesTargets ==
    /\ GroupReturned =>
         \A n \in Range(op.names) : eyelids[n].current_us = SERVOS[n][op.state]
    /\ InGroupLoop =>
         \A n \in Range(op.names) :
            Between(eyelids[n].current_us, before[n].current_us, SERVOS[n][op.state])

\* All four lids closed from all four open: four different distances.
C1_Witness ==
    /\ GroupReturned
    /\ op.names = ALL_LIDS
    /\ op.state = "closed"
    /\ \A n \in Range(ALL_LIDS) : before[n].current_us = SERVOS[n].open
    /\ \A n \in Range(ALL_LIDS) : eyelids[n].current_us = SERVOS[n].closed

\* C2: move_group makes max over members of ceil(|start - target| / 20)
\* stepping passes (not the sum); a member is written ceil(|start - target| / 20)
\* times and no more while the loop goes on for the others; every stepping
\* pass ends with the one 6 ms delay.
C2_IterationsAreMax ==
    /\ GroupReturned =>
         /\ iters = MaxOf({CeilDiv(StartDist(n), GROUP_STEP) : n \in Range(op.names)})
         /\ \A n \in Range(op.names) : nwr[n] = CeilDiv(StartDist(n), GROUP_STEP)
    /\ (op.f = "move_group" /\ pc = "move_group_loop" /\ iters > 0) =>
         /\ ev # <<>>
         /\ ev[Len(ev)] = Ev("sleep_ms", 0, GROUP_DELAY_MS)
         /\ Cardinality({i \in 1..Len(ev) : ev[i][1] = "sleep_ms"}) = 1
         /\ Cardinality({i \in 1..Len(ev) : ev[i][1] = "duty_u16"}) >= 1

\* 53 passes for distances of 1045, 800, 1000 and 880: the maximum, not the
\* sum, and the members that were there sooner got fewer writes.
C2_Witness ==
    /\ GroupReturned
    /\ op.names = ALL_LIDS
    /\ iters = 53
    /\ nwr["TL"] = 53 /\ nwr["BL"] = 40 /\ nwr["TR"] = 50 /\ nwr["BR"] = 44

\* C3: in move_group no member's distance to its target grows from one pass
\* to the next, and it is zero from pass ceil(|start - target| / 20) on and
\* not before.
C3_Distance ==
    InGroupLoop =>
        \A n \in Range(op.names) :
            /\ Dist(n) <= StartDist(n)
            /\ (Dist(n) = 0) <=> (iters >= CeilDiv(StartDist(n), GROUP_STEP))

C3_MonotoneStep ==
    (op.f = "move_group" /\ pc = "move_group_loop") =>
        \A n \in Range(op.names) :
            Abs(eyelids'[n].current_us - tgt[n]) <= Abs(eyelids[n].current_us - tgt[n])

C3_MonotoneConvergence == [](C3_Distance) /\ [][C3_MonotoneStep]_vars

\* TL is 5 from its target after 52 passes: the pass that clamps is next.
C3_Witness ==
    /\ op.f = "move_group"
    /\ pc = "move_group_loop"
    /\ iters = 52
    /\ Dist("TL") = 5
    /\ Dist("BL") = 0

\* C4: a member that is at its target when move_group starts gets no write
\* in the whole transition and keeps its pulse, while the others are stepped
\* to their targets; in every pass the members at their target issue no
\* hardware write.
C4_AtTargetSkipped ==
    InGroupLoop =>
        /\ \A n \in Range(op.names) :
              StartDist(n) = 0 =>
                  nwr[n] = 0 /\ eyelids[n].current_us = before[n].current_us
        /\ \A n \in Range(op.names) :
              (pc = "move_group_loop" /\ iters > 0 /\ nwr[n] < iters) =>
                  \A i \in 1..Len(ev) : ev[i][2] # SERVOS[n].pin

\* Opening all lids when the left eye is open and the right closed: TR gets
\* its 50 writes (1700 -> 700), TL and BL none.
C4_Witness ==
    /\ GroupReturned
    /\ op.names = ALL_LIDS
    /\ op.state = "open"
    /\ before["TR"].current_us = 1700 /\ eyelids["TR"].current_us = 700
    /\ nwr["TR"] = 50
    /\ nwr["TL"] = 0 /\ nwr["BL"] = 0
    /\ before["TL"].current_us = 2200 /\ eyelids["TL"].current_us = 2200

Unpowered(n) == Obj(n).pwm = None

\* The actuator the single-object call in progress is made on.
Self == op.names[1]

\* The step is a client connecting, not a step of the loop.
ClientStep == waiting' > waiting

\* C5: release() on an actuator that has no PWM object, and release_all()
\* when no actuator has one, raise nothing, call no deinit() and leave every
\* actuator's current_us and pwm as they were.
C5_ReleaseAllIdle ==
    (op.f = "release_all" /\ pc = "ret" /\ \A n \in Names : before[n].pwm = None) =>
        /\ All = before
        /\ deinits = {}
        /\ exc = ""

C5_ReleaseStep ==
    /\ (pc = "release_all" /\ idx \in 1..Len(ReleaseOrder) /\ ~ClientStep
          /\ Unpowered(ReleaseOrder[idx])) =>
            /\ ev' = <<>>
            /\ deinits' = deinits
            /\ <<eyelids, UD, LR>>' = <<eyelids, UD, LR>>
            /\ pc' # "raised"
    /\ (pc = "release" /\ Unpowered(Self) /\ ~ClientStep) =>
            /\ ev' = <<>>
            /\ deinits' = deinits
            /\ <<eyelids, UD, LR>>' = <<eyelids, UD, LR>>
            /\ pc' = "ret"

C5_ReleaseIdempotent == [](C5_ReleaseAllIdle) /\ [][C5_ReleaseStep]_vars

\* /release sent when the command before it has already released everything.
C5_Witness ==
    /\ cmd = "/release"
    /\ op.f = "release_all"
    /\ pc = "ret"
    /\ \A n \in Names : before[n].pwm = None
    /\ \E n \in DOMAIN eyelids : eyelids[n].current_us = SERVOS[n].closed

\* C6: release() never raises; when deinit() throws, the actuator is left
\* without its PWM object all the same, and release_all goes on: once it is
\* past an actuator that actuator is unpowered, and when it returns every
\* actuator is.
C6_ReleaseNeverRaises ==
    /\ op.f \in {"release", "release_all"} => pc # "raised" /\ exc = ""
    /\ (op.f = "release" /\ pc = "ret") => Unpowered(Self)
    /\ (op.f = "release_all" /\ pc = "ret") => \A n \in Names : Unpowered(n)
    /\ (op.f = "release_all" /\ pc = "release_all") =>
          \A i \in 1..(idx - 1) : Unpowered(ReleaseOrder[i])
    /\ \A d \in deinits : Unpowered(d[1])

\* deinit() threw for TL, the first actuator, and the three other powered
\* lids were released after it.
C6_Witness ==
    /\ op.f = "release_all"
    /\ pc = "ret"
    /\ <<"TL", TRUE>> \in deinits
    /\ {<<"BL", FALSE>>, <<"TR", FALSE>>, <<"BR", FALSE>>} \subseteq deinits
    /\ \A n \in Names : before[n].pwm # None <=> n \in DOMAIN eyelids
    /\ \A n \in Names : Unpowered(n)

\* C7: write(us) leaves current_us = us; with a PWM object it sets that
\* object's duty to us_to_duty(us), without one it issues nothing and the
\* actuator stays without one; an enable() of an unpowered actuator then
\* applies the duty of the pulse on record.
C7_WriteRecordsAppliesIfPowered ==
    /\ (op.f = "write" /\ pc = "ret") =>
          /\ Obj(Self).current_us = op.us
          /\ Obj(Self).pin = before[Self].pin
          /\ before[Self].pwm = None => (Obj(Self).pwm = None /\ ev = <<>>)
          /\ before[Self].pwm # None =>
                /\ Obj(Self).pwm = PWM(SERVO_FREQ, us_to_duty(op.us))
                /\ ev = <<Ev("duty_u16", Obj(Self).pin, us_to_duty(op.us))>>
          /\ \A n \in Names \ {Self} : Obj(n) = before[n]
    /\ (op.f = "enable" /\ pc = "ret" /\ before[Self].pwm = None) =>
          /\ Obj(Self).current_us = before[Self].current_us
          /\ Obj(Self).pwm = PWM(SERVO_FREQ, us_to_duty(before[Self].current_us))
          /\ ev = <<Ev("PWM", Obj(Self).pin, 0),
                    Ev("freq", Obj(Self).pin, SERVO_FREQ),
                    Ev("duty_u16", Obj(Self).pin, us_to_duty(before[Self].current_us))>>

\* A write of a new pulse on an unpowered actuator.
C7_Witness ==
    /\ op.f = "write"
    /\ pc = "ret"
    /\ before[Self].pwm = None
    /\ before[Self].current_us # op.us
    /\ Obj(Self).current_us = op.us
    /\ Obj(Self).pwm = None

\* C8: move(target, step, delay) enables the actuator and keeps it powered;
\* after k passes current_us is k * |step| from where it started, or at the
\* target when that is nearer, so it never passes the target; when move
\* returns current_us is the target, after ceil(|start - target| / |step|)
\* passes, none when it was there already.
C8_MoveClampsAndStaysPowered ==
    (op.f = "move" /\ pc \in {"move_loop", "ret"}) =>
        LET o     == Obj(Self)
            start == before[Self].current_us
            dist  == Abs(start - op.us)
            st    == Abs(op.step)
        IN  /\ o.pwm # None
            /\ o.pwm[1].duty = us_to_duty(o.current_us)
            /\ Between(o.current_us, start, op.us)
            /\ Abs(o.current_us - start) = (IF iters * st < dist THEN iters * st ELSE dist)
            /\ pc = "ret" => /\ o.current_us = op.us
                             /\ iters = CeilDiv(dist, st)
                             /\ nwr[Self] = iters
            /\ pc = "move_loop" => o.current_us # op.us
            /\ \A n \in Names \ {Self} : Obj(n) = before[n]

\* 150 down in steps of 20 given as -20: seven whole steps and a clamped one.
C8_Witness ==
    /\ op.f = "move"
    /\ pc = "ret"
    /\ op.step = -MOVE_STEP
    /\ before[Self].current_us = UD_MID
    /\ op.us = UD_LIMITS.down
    /\ iters = 8
    /\ Obj(Self).current_us = UD_LIMITS.down
    /\ Obj(Self).pwm # None

\* C9: enable() on an actuator that has its PWM object creates none, sets no
\* frequency and no duty, and leaves current_us and pwm as they were.
C9_EnableIdempotent ==
    /\ (op.f = "enable" /\ pc = "ret" /\ before[Self].pwm # None) =>
          All = before /\ ev = <<>>
    /\ (op.f \in {"enable_all_lids", "move_group"} /\ pc = "enable_all_lids") =>
          \A i \in 1..(idx - 1) :
              before[ALL_LIDS[i]].pwm # None =>
                  eyelids[ALL_LIDS[i]] = before[ALL_LIDS[i]]
    /\ (op.f \in {"enable_all_lids", "move_group"} /\ pc = "enable_all_lids"
          /\ idx > 1 /\ before[ALL_LIDS[idx - 1]].pwm # None) =>
          ev = <<Ev("sleep_ms", 0, ENABLE_STAGGER_MS)>>

\* enable() called on an actuator whose PWM object exists.
C9_Witness ==
    /\ op.f = "enable"
    /\ pc = "ret"
    /\ before[Self].pwm # None
    /\ Obj(Self).pwm # None

\* C10: for every pulse of 500..2500 us_to_duty(us) is floor(us * 65535 /
\* 20000), the integer d with d * 20000 <= us * 65535 < (d + 1) * 20000;
\* 1500 gives 4915, 500 gives 1638, 2500 gives 8191; the result fits 16 bits.
C10_DutyIsFloor ==
    ret # <<>> =>
        /\ ret[1] * PERIOD_US <= arg * 65535
        /\ arg * 65535 < (ret[1] + 1) * PERIOD_US
        /\ ret[1] >= 0 /\ ret[1] < 65536
        /\ arg = 1500 => ret[1] = 4915
        /\ arg = 500  => ret[1] = 1638
        /\ arg = 2500 => ret[1] = 8191

C10_Witness == arg = 2500 /\ ret = <<8191>>

LidNames == DOMAIN SERVOS

\* C11: in every reachable state of the server every actuator's current_us is
\* in its range: a lid between its open and its closed value (so within
\* 700..2360), UD within 1260..1560, LR within 820..1920, all within
\* 500..2500.
C11_PulseInRange ==
    /\ \A n \in LidNames :
          /\ Between(eyelids[n].current_us, SERVOS[n].open, SERVOS[n].closed)
          /\ 700 <= eyelids[n].current_us /\ eyelids[n].current_us <= 2360
    /\ UD_LIMITS.down <= UD.current_us /\ UD.current_us <= UD_LIMITS.up
    /\ LR_LIMITS.left <= LR.current_us /\ LR.current_us <= LR_LIMITS.right
    /\ \A n \in Names : US_MIN <= Obj(n).current_us /\ Obj(n).current_us <= US_MAX

\* Every actuator at an end of its range at once, BL and TR at the overall
\* ends 2360 and 700.
C11_Witness ==
    /\ pc = "idle"
    /\ eyelids["BL"].current_us = 2360
    /\ eyelids["TR"].current_us = 700
    /\ UD.current_us = UD_LIMITS.down
    /\ LR.current_us = LR_LIMITS.right

AllUnpowered == \A n \in Names : Unpowered(n)

LidsAt(state) == \A n \in LidNames : eyelids[n].current_us = SERVOS[n][state]

\* The handler is past its call of lids_open() / lids_close(): /open and
\* /close reply next, blink holds after lids_close() and replies after
\* lids_open().
AfterLidsOpen  == pc = "reply" /\ cmd \in {"/open", "/blink"}

AfterLidsClose == (pc = "reply" /\ cmd = "/close") \/ (pc = "sleep_ms" /\ cmd = "/blink")

\* C12: when lids_open() (lids_close()) has returned, TL, TR, BL and BR are
\* at their open (closed) values and none of the six actuators is powered.
C12_LidsOpenClose ==
    /\ AfterLidsOpen  => LidsAt("open") /\ AllUnpowered
    /\ AfterLidsClose => LidsAt("closed") /\ AllUnpowered

\* /close answered after /look_up: the lids went from open to closed.
C12_Witness ==
    /\ AfterLidsClose
    /\ cmd = "/close"
    /\ LidsAt("closed")
    /\ AllUnpowered
    /\ UD.current_us = UD_LIMITS.up

\* Some lid's pulse gets nearer to its open value in this step.
SomeLidTowardOpen ==
    \E n \in LidNames :
        Abs(eyelids'[n].current_us - SERVOS[n].open) < Abs(eyelids[n].current_us - SERVOS[n].open)

\* C13: blink() closes all lids, holds 90 ms, opens all lids, in that order:
\* the hold finds every lid closed, the opening move_group starts with every
\* lid closed and is the only place where a lid is stepped toward open, and
\* when blink() has returned all four lids are open and no actuator is
\* powered.
C13_Phases ==
    cmd = "/blink" =>
        /\ (op.f = "move_group" /\ Len(todo) > 2) => op = c_move_group(ALL_LIDS, "closed")
        /\ (op.f = "move_group" /\ Len(todo) <= 2) => op = c_move_group(ALL_LIDS, "open")
        /\ pc = "sleep_ms" =>
              /\ op = c_sleep_ms(BLINK_HOLD_MS)
              /\ Len(todo) = 3
              /\ LidsAt("closed")
        /\ (op.f = "move_group" /\ op.state = "open") =>
              /\ Len(todo) = 2
              /\ \A n \in LidNames : before[n].current_us = SERVOS[n].closed
        /\ pc = "reply" => LidsAt("open") /\ AllUnpowered

C13_Order ==
    /\ (cmd = "/blink" /\ SomeLidTowardOpen) =>
          /\ op = c_move_group(ALL_LIDS, "open")
          /\ \A n \in LidNames : before[n].current_us = SERVOS[n].closed
    /\ (cmd = "/blink" /\ cmd' = "/blink") => Len(todo') <= Len(todo)

C13_BlinkCloseHoldOpen == [](C13_Phases) /\ [][C13_Order]_vars

\* The opening half of a blink has returned: 53 passes from all closed to all
\* open.
C13_Witness ==
    /\ cmd = "/blink"
    /\ op = c_move_group(ALL_LIDS, "open")
    /\ pc = "ret"
    /\ iters = 53
    /\ \A n \in LidNames : before[n].current_us = SERVOS[n].closed
    /\ LidsAt("open")

Winks == {"/wink_left", "/wink_right"}

WinkPair(c) == IF c = "/wink_left" THEN LEFT_EYE ELSE RIGHT_EYE

PairAt(c, state) == \A n \in Range(WinkPair(c)) : eyelids[n].current_us = SERVOS[n][state]

\* C14: wink_left() (wink_right()) closes its pair, holds 110 ms and reopens
\* it; from the arrival of the command to its end the current_us of the other
\* eye's two lids, of UD and of LR does not change; when the wink has returned
\* the pair is open and no actuator is powered.
C14_Phases ==
    cmd \in Winks =>
        /\ op.f = "move_group" =>
              /\ op.names = WinkPair(cmd)
              /\ op.state = (IF Len(todo) > 2 THEN "closed" ELSE "open")
        /\ pc = "sleep_ms" => op = c_sleep_ms(WINK_HOLD_MS) /\ PairAt(cmd, "closed")
        /\ (op.f = "move_group" /\ op.state = "open") =>
              \A n \in Range(WinkPair(cmd)) : before[n].current_us = SERVOS[n].closed
        /\ pc = "reply" => PairAt(cmd, "open") /\ AllUnpowered

C14_Frame ==
    /\ cmd \in Winks =>
          /\ \A n \in LidNames \ Range(WinkPair(cmd)) :
                eyelids'[n].current_us = eyelids[n].current_us
          /\ UD'.current_us = UD.current_us
          /\ LR'.current_us = LR.current_us
    /\ (cmd \in Winks /\ cmd' \in Winks) => Len(todo') <= Len(todo)

C14_WinkOnlyItsPair == [](C14_Phases) /\ [][C14_Frame]_vars

\* A left wink reopened (53 passes) while the right eye stayed closed.
C14_Witness ==
    /\ cmd = "/wink_left"
    /\ op = c_move_group(LEFT_EYE, "open")
    /\ pc = "ret"
    /\ iters = 53
    /\ PairAt("/wink_left", "open")
    /\ PairAt("/wink_right", "closed")

Looks == {"/look_up", "/look_down", "/center_ud"}

LookTarget(c) ==
    IF c = "/look_up" THEN 1560 ELSE IF c = "/look_down" THEN 1260 ELSE 1410

\* C15: when look_up(), look_down() or center_ud() has returned UD.current_us
\* is 1560, 1260 or 1410 and UD is unpowered; from the arrival of the command
\* to its end no lid and not LR changes its pulse or its pwm.
C15_AtTarget ==
    (cmd \in Looks /\ pc = "reply") =>
        /\ UD.current_us = LookTarget(cmd)
        /\ UD.pwm = None

C15_Frame ==
    (cmd \in Looks \/ cmd' \in Looks) => eyelids' = eyelids /\ LR' = LR

C15_LookMovesOnlyUD == [](C15_AtTarget) /\ [][C15_Frame]_vars

\* /look_down has moved UD to 1260 and release() has just unpowered it, the
\* lids closed as they were.
C15_Witness ==
    /\ cmd = "/look_down"
    /\ op = c_release("UD")
    /\ pc = "ret"
    /\ before["UD"].pwm # None
    /\ UD = ServoLazy(UD_PIN, 1260)
    /\ LidsAt("closed")

\* The call in progress is a move_group whose state has no entry in SERVOS for
\* some member.
InvalidGroupState ==
    /\ op.f = "move_group"
    /\ \E n \in Range(op.names) : op.state \notin DOMAIN SERVOS[n]

\* C16: move_group with a state that SERVOS lacks for a member raises KeyError:
\* the call never enters its loop and never returns, no write() is issued and
\* no member's pulse changes.
C16_InvalidStateRaises ==
    InvalidGroupState =>
        /\ pc \in {"enable_all_lids", "move_group_init", "raised"}
        /\ pc = "raised" => exc = "KeyError"
        /\ \A n \in Names : nwr[n] = 0 /\ Obj(n).current_us = before[n].current_us

\* move_group(LEFT_EYE, "half") has raised after enable_all_lids() ran.
C16_Witness ==
    /\ op = c_move_group(LEFT_EYE, "half")
    /\ pc = "raised"
    /\ exc = "KeyError"
    /\ \A n \in LidNames : ~Unpowered(n)

\* The call in progress and the calls to come are a tail of the handler of
\* the command being served.
InHandlerOf(c) ==
    \E k \in 1..Len(route(c)) :
        /\ op = route(c)[k]
        /\ todo = SubSeq(route(c), k + 1, Len(route(c)))

\* C17: the loop serves one command at a time. The reply is the last call of
\* a handler and is sent with the gesture's calls all returned and every
\* actuator unpowered; from accept() to c.close() the command being served
\* does not change, whatever connection is waiting, and every call made and
\* every change of an actuator belongs to the handler of that command.
C17_ReplyLast ==
    /\ cmd # "" => InHandlerOf(cmd)
    /\ cmd = "" => pc = "idle" /\ op = NoCall
    /\ pc = "reply" => todo = <<>> /\ AllUnpowered

C17_NoSecondCommand ==
    /\ cmd # "" => cmd' \in {cmd, ""}
    /\ (cmd # "" /\ cmd' = "") => (op.f = "reply" /\ pc = "ret")
    /\ (cmd # "" /\ cmd' = cmd) => waiting' >= waiting
    /\ <<eyelids, UD, LR>>' # <<eyelids, UD, LR>> => (cmd # "" /\ cmd' = cmd)

C17_OneCommandAtATime == [](C17_ReplyLast) /\ [][C17_NoSecondCommand]_vars

\* A second client has connected while the opening half of a blink is under
\* way.
C17_Witness ==
    /\ waiting = 1
    /\ cmd = "/blink"
    /\ op = c_move_group(ALL_LIDS, "open")
    /\ pc = "move_group_loop"
    /\ iters > 0

\* The call in progress is a move_group all of whose members were at their
\* targets when it was called.
AllAtTargetOnEntry ==
    /\ op.f = "move_group"
    /\ \A n \in Range(op.names) :
          /\ op.state \in DOMAIN SERVOS[n]
          /\ before[n].current_us = SERVOS[n][op.state]

\* C18: a move_group whose members all are at their targets when it is called
\* makes no stepping pass: no write() is issued, no 6 ms delay is taken and no
\* pulse changes; the one pass the loop makes finds nothing to do and the
\* call returns.
C18_NoStepNoWrite ==
    AllAtTargetOnEntry =>
        /\ pc \in {"enable_all_lids", "move_group_init", "move_group_loop", "ret"}
        /\ iters = 0
        /\ nwr = NoWrites
        /\ \A n \in Names : Obj(n).current_us = before[n].current_us
        /\ pc \in {"move_group_loop", "ret"} => ev = <<>>

C18_LoopLeavesAtOnce ==
    (AllAtTargetOnEntry /\ pc = "move_group_loop" /\ pc' # pc) =>
        /\ pc' = "ret"
        /\ ev' = <<>>
        /\ <<eyelids, UD, LR>>' = <<eyelids, UD, LR>>

C18_AtTargetIsNoOp == [](C18_NoStepNoWrite) /\ [][C18_LoopLeavesAtOnce]_vars

\* /open with the lids open: move_group has returned without a pass, the lids
\* powered by enable_all_lids().
C18_Witness ==
    /\ cmd = "/open"
    /\ op = c_move_group(ALL_LIDS, "open")
    /\ pc = "ret"
    /\ AllAtTargetOnEntry
    /\ iters = 0
    /\ \A n \in LidNames : ~Unpowered(n)

\* C19: whenever the loop waits in accept() for the next command, right after
\* boot included, each of the six actuators is unpowered.
C19_IdleUnpowered == pc = "idle" => AllUnpowered

\* Idle again after commands that moved lids and both gaze actuators.
C19_Witness ==
    /\ pc = "idle"
    /\ AllUnpowered
    /\ LidsAt("closed")
    /\ UD.current_us = UD_LIMITS.down

\* C20: pico_post_reliable makes its attempts one at a time and at most tries
\* of them; an attempt that yields a response (an empty text included) is the
\* last one and the call returns True; it returns False only after exactly
\* tries attempts that all failed.
C20_State ==
    /\ Len(log) <= tries
    /\ Len(log) = IF ppc = "request" THEN attempt - 1 ELSE attempt
    /\ \A j \in 1..(Len(log) - 1) : log[j] = None
    /\ (log # <<>> /\ log[Len(log)] # None) => ppc \in {"if", "return"}
    /\ ppc = "return" =>
          /\ result = <<TRUE>> <=> (log # <<>> /\ log[Len(log)] # None)
          /\ result = <<FALSE>> <=> (Len(log) = tries /\ \A j \in 1..Len(log) : log[j] = None)
    /\ ppc # "return" => result = <<>>

C20_Step ==
    /\ log' # log => (ppc = "request" /\ Len(log') = Len(log) + 1)
    /\ ppc = "return" => UNCHANGED <<ppc, result, log, attempt>>

C20_PostReliable == [](C20_State) /\ [][C20_Step]_vars

\* Two failures, then a response: True after three of six attempts.
C20_Witness ==
    /\ ppc = "return"
    /\ result = <<TRUE>>
    /\ tries = MaxTries
    /\ log = <<None, None, <<"">> >>
    /\ naps = 2

\* Blink threads that are running.
AliveThreads == {k \in ThreadIds : is_alive(k)}

\* C21: at most one blink thread is running at any time.
C21_OneBlinkThread == Cardinality(AliveThreads) <= 1

\* Some blink thread sends its blink request in this step.
BlinkRequestIssued ==
    \E k \in ThreadIds : threads[k] = "eyes_blink" /\ threads'[k] = "request"

\* C22: a blink request is sent only while neither SPEAKING nor LISTENING is
\* set.
C22_Step == BlinkRequestIssued => (~SPEAKING /\ ~LISTENING)

C22_NoBlinkWhileBusy == [][C22_Step]_vars

\* The main thread is inside speak_text_blocking, past SPEAKING.set().
SpeakingSection == mpc \in {"tempfile", "piper", "if_not_ok", "play", "finally"}

\* C23: SPEAKING is set only inside speak_text_blocking with a text that is
\* not empty after strip(); whenever the call has returned or raised, on
\* every path (empty text, no model or failed synthesis, playback done or
\* thrown), SPEAKING is clear.
C23_SpeakingCleared ==
    /\ SPEAKING => (SpeakingSection /\ text # None /\ text[1] # "")
    /\ sres \in {"returned", "raised"} =>
          /\ ~SPEAKING
          /\ mpc = "main" => raising = ""
          /\ mpc \notin {"speak", "SPEAKING.set"} /\ ~SpeakingSection
    /\ (mpc \in {"speak", "SPEAKING.set"} \/ SpeakingSection) => sres = ""

\* speak_text_blocking raised out of playback and left SPEAKING clear.
C23_Witness ==
    /\ mpc = "main"
    /\ sres = "raised"
    /\ ok
    /\ text = <<"hi">>
    /\ ~SPEAKING

\* C24: cleanup_face always calls stop_blinking and never raises: once it has
\* ended it has returned, with BLINK_STOP set by its stop_blinking; with
\* PICO_ENABLED it has sent /close and then /release, also when stop_blinking
\* raised, and without PICO_ENABLED it has sent nothing.
C24_Ended ==
    /\ cres \in {"", "returned"}
    /\ cres = "returned" => sent = (IF pico_enabled THEN <<"/close", "/release">> ELSE <<>>)
    /\ ~pico_enabled => sent = <<>>
    /\ Len(sent) = 2 => sent = <<"/close", "/release">>
    /\ mpc \in {"except", "if PICO_ENABLED", "eyes_close", "eyes_release"} => BLINK_STOP

C24_Step == (cres = "" /\ cres' # "") => mpc \in {"if PICO_ENABLED", "eyes_release"}

C24_CleanupNeverRaises == [](C24_Ended) /\ [][C24_Step]_vars

\* cleanup_face returned after stop_blinking raised, /close and /release sent.
C24_Witness ==
    /\ mpc = "main"
    /\ cres = "returned"
    /\ stop_raised
    /\ pico_enabled
    /\ sent = <<"/close", "/release">>

\* The order in which enable_all_lids takes the lids.
EnableOrder == <<"TL", "TR", "BL", "BR">>

\* C25: inside move_group the four lids are enabled one per step in the
\* order TL, TR, BL, BR, each enable followed by a delay of 50 ms, and all of
\* that before the first write(); move_group deinitialises nothing, so when
\* it returns every member of names (every lid, in fact) is powered.
C25_State ==
    op.f = "move_group" =>
        /\ deinits = {}
        /\ pc = "enable_all_lids" =>
              /\ nwr = NoWrites /\ iters = 0
              /\ \A j \in 1..(idx - 1) : ~Unpowered(EnableOrder[j])
        /\ pc \in {"move_group_init", "move_group_loop", "ret"} =>
              \A n \in LidNames : ~Unpowered(n)
        /\ pc = "ret" => \A n \in Range(op.names) : eyelids[n].pwm # None

C25_Step ==
    (op.f = "move_group" /\ op' = op /\ ~ClientStep) =>
        /\ \A n \in Names : ~Unpowered(n) => Obj(n)'.pwm # None
        /\ pc = "enable_all_lids" =>
              /\ ev' # <<>>
              /\ ev'[Len(ev')] = Ev("sleep_ms", 0, ENABLE_STAGGER_MS)
              /\ \A n \in LidNames \ {EnableOrder[idx]} : eyelids'[n] = eyelids[n]
              /\ eyelids'[EnableOrder[idx]].pwm # None
              /\ nwr' = nwr
        /\ nwr' # nwr => (pc = "move_group_loop" /\ \A n \in LidNames : ~Unpowered(n))

C25_EnabledBeforeWritesPoweredAfter == [](C25_State) /\ [][C25_Step]_vars

\* move_group(LEFT_EYE, "closed") has returned after 53 passes: all four
\* lids powered.
C25_Witness ==
    /\ op = c_move_group(LEFT_EYE, "closed")
    /\ pc = "ret"
    /\ iters = 53
    /\ \A n \in LidNames : eyelids[n].pwm # None
    /\ \A n \in LidNames : before[n].pwm = None

RECURSIVE TrailingEmpty(_)
\* The number of empty recordings at the end of a sequence of recordings.
TrailingEmpty(q) ==
    IF q = <<>> \/ q[Len(q)] THEN 0 ELSE 1 + TrailingEmpty(SubSeq(q, 1, Len(q) - 1))

PassedOn == {"whisper_tx", "face_thinking_small", "ollama_chat_once", "face_neutral",
             "speak_text_blocking"}

\* C26: run_once re-selects the microphone exactly when the last three
\* recordings were empty; silent_runs counts the empty recordings in a row
\* since the last re-selection or non-empty recording, so it is in 0..2 when
\* a recording starts; an empty recording is passed on to nothing.
C26_State ==
    /\ silent_runs \in 0..3
    /\ rpc = "record_utterance" =>
          /\ silent_runs \in 0..2
          /\ silent_runs = TrailingEmpty(recent)
    /\ rpc = "if silent_runs" => silent_runs = TrailingEmpty(recent)
    /\ (rpc \in PassedOn \/ stages \cap PassedOn # {}) => strip(rough) # ""
    /\ "pick_input_device" \in stages => strip(rough) = "" /\ stages = {"pick_input_device"}

C26_Step ==
    ("pick_input_device" \notin stages /\ "pick_input_device" \in stages')
        <=> (rpc = "if silent_runs" /\ rpc' # rpc /\ recent = <<FALSE, FALSE, FALSE>>)

C26_SilenceWatchdog == [](C26_State) /\ [][C26_Step]_vars

\* The microphone has just been re-selected after three empty recordings.
C26_Witness ==
    /\ rpc = "record_utterance"
    /\ stages = {"pick_input_device"}
    /\ silent_runs = 0
    /\ recent = <<>>

\* C27: while gesture commands are served, the pulse applied to a PWM output
\* differs from the pulse applied to it before by at most 20 microseconds,
\* whether the two are steps of one ramp or lie on either side of a release
\* and a re-enable; the pulse an object records is the one applied last.
C27_Recorded ==
    \A n \in Names : applied[n] # None => applied[n] = <<Obj(n).current_us>>

C27_Step ==
    \A n \in Names :
        (applied[n] # None /\ applied'[n] # applied[n]) =>
            Abs(applied'[n][1] - applied[n][1]) <= 20

C27_SmallSteps == [](C27_Recorded) /\ [][C27_Step]_vars

\* TL is enabled again at its closed pulse, where the ramp before its
\* release had left it.
C27_Witness ==
    /\ pc = "enable_all_lids"
    /\ idx = 2
    /\ before["TL"].pwm = None
    /\ eyelids["TL"].pwm # None
    /\ applied["TL"] = <<SERVOS["TL"].closed>>
    /\ \E i \in 1..Len(ev) : ev[i] = Ev("duty_u16", SERVOS["TL"].pin, us_to_duty(SERVOS["TL"].closed))

\* C28: for one call of pico_post_reliable the loop starts the handler of the
\* endpoint at most once.
C28_AtMostOnce == executed <= 1

RECURSIVE SumDist(_)
\* The pulse widths still to travel in a stepping loop: what its local
\* variables cur and tgt (move_group) or cur and target_us (move) leave.
SumDist(names) ==
    IF names = <<>> THEN 0
    ELSE Abs(cur[Head(names)] - (IF op.f = "move" THEN op.us ELSE tgt[Head(names)]))
           + SumDist(Tail(names))

Remaining == SumDist(op.names)

Answered == op.f = "reply" /\ pc = "ret" /\ ev = <<Ev("send", 0, 0)>>

\* A pass of either loop shortens the way still to travel, or finds nothing
\* left of it and leaves the loop.
C29_Step ==
    (pc \in {"move_group_loop", "move_loop"} /\ ~ClientStep) =>
        \/ Remaining' < Remaining /\ Remaining' >= 0 /\ op' = op
        \/ Remaining = 0 /\ pc' = "ret"

\* C29: every gesture terminates: each pass of move_group's and of move's loop
\* brings the pulses nearer to their targets, so the loops end after finitely
\* many passes, and every command the loop has accepted is answered and its
\* handler left.
C29_GesturesTerminate ==
    /\ [][C29_Step]_vars
    /\ (cmd # "") ~> Answered
    /\ (cmd # "") ~> (cmd = "")

C29_Witness ==
    /\ cmd = "/look_left"
    /\ Answered
    /\ LR.current_us = LR_LIMITS["left"]
    /\ \A n \in Names : Unpowered(n)

\* C30: when move_group has raised KeyError for a state name missing from the
\* calibration table, no write() has been issued and every actuator has the
\* current_us and the powered status it had when the call was made.
C30_FailedCallChangesNothing ==
    (InvalidGroupState /\ pc = "raised") =>
        \A n \in Names :
            /\ nwr[n] = 0
            /\ Obj(n).current_us = before[n].current_us
            /\ Unpowered(n) <=> before[n].pwm = None

====
